---------------------------- MODULE Spec2Model ----------------------------
(***************************************************************************)
(* A model of pytest-review: the scoring engine (scoring.py), the          *)
(* tree-walking analyzers and the runtime observers (analyzers/*.py), the  *)
(* configuration loader (config.py) and the pytest hooks (plugin.py).      *)
(*                                                                         *)
(* Scores are Python floats in the source.  The model keeps them exact:    *)
(* a score s is the integer s * ScoreScale, where ScoreScale is a multiple *)
(* of 100 (the weights are hundredths) and of every test count the model   *)
(* divides by.                                                             *)
(***************************************************************************)
EXTENDS Integers, Sequences, FiniteSets, TLC

VARIABLES
    results,        \* the list of AnalyzerResult the run has collected
    engine,         \* ScoringEngine: self._results, self._total_tests
    breakdown,      \* the ScoreBreakdown calculate_score returned last
    score_pc,       \* "collect" while results are gathered, "scored" after
    test_info,      \* the TestItemInfo under static analysis (its node)
    an_options,     \* the analyzer's options map (AnalyzerConfig.options)
    an_result,      \* the AnalyzerResult analyze() returned
    an_pc,          \* "idle", "ready" before analyze(), "done" after
    visitor,        \* the ComplexityVisitor of a traversal in progress and its call stack
    an_instance,    \* the analyzer instance a constructor built, with its thresholds
    perf,           \* the PerformanceAnalyzer instance
    iso,            \* the IsolationDynamicAnalyzer instance
    modules,        \* sys.modules: module name -> its attributes and their values
    last_call,      \* the observer method called last, with its arguments
    plugin,         \* the ReviewPlugin instance (_plugin)
    session,        \* the pytest session: options, items, progress, exit status
    config_file,    \* pyproject.toml on disk
    config_data,    \* the dictionary a caller passes to ReviewConfig.from_dict
    review_config   \* what ReviewConfig.from_pyproject returned or raised

scoringVars == <<results, engine, breakdown, score_pc>>
analyzerVars == <<test_info, an_options, an_result, an_pc, visitor, an_instance>>
runtimeVars == <<perf, iso, modules, last_call>>
pluginVars == <<plugin, session>>
configVars == <<config_file, config_data, review_config>>
vars == <<results, engine, breakdown, score_pc, test_info, an_options, an_result, an_pc, visitor,
          an_instance,
          perf, iso, modules, last_call, plugin, session, config_file, config_data,
          review_config>>

---------------------------------------------------------------------------
(* Bounds of the model.                                                    *)

MaxTests == 2       \* total_tests ranges over 0..MaxTests
MaxResults == 2     \* length of the results list
MaxRun == 7         \* copies of one issue in the last result

---------------------------------------------------------------------------
(* Exact arithmetic.                                                       *)

Max(a, b) == IF a >= b THEN a ELSE b
Min(a, b) == IF a <= b THEN a ELSE b

RECURSIVE Gcd(_, _)
Gcd(a, b) == IF b = 0 THEN a ELSE Gcd(b, a % b)

RECURSIVE LcmUpTo(_)
LcmUpTo(n) == IF n <= 1 THEN 1 ELSE (LcmUpTo(n - 1) * n) \div Gcd(LcmUpTo(n - 1), n)

\* One score point.  100.0 is Pts(100).
ScoreScale == 100 * LcmUpTo(MaxTests)
Pts(n) == n * ScoreScale

RECURSIVE SumSeq(_)
SumSeq(s) == IF s = <<>> THEN 0 ELSE Head(s) + SumSeq(Tail(s))

None == "None"

---------------------------------------------------------------------------
(* analyzers/base.py: Severity, Issue, AnalyzerResult.                      *)

Severity == {"info", "warning", "error"}

\* file_path and suggestion are left out; line 0 stands for None
Issue(rule, message, severity, line, test_name) ==
    [rule |-> rule, message |-> message, severity |-> severity, line |-> line,
     test_name |-> test_name]

EmptyMap == [k \in {} |-> 0]

AnalyzerResult(analyzer_name) ==
    [analyzer_name |-> analyzer_name, issues |-> <<>>, metadata |-> EmptyMap]

\* AnalyzerResult.add_issue
add_issue(result, issue) == [result EXCEPT !.issues = Append(@, issue)]

---------------------------------------------------------------------------
(* scoring.py: the class constants of ScoringEngine.                        *)

\* dict order of CATEGORY_WEIGHTS
CategoryNames == <<"assertions", "clarity", "isolation", "simplicity", "performance">>

\* weights that do not sum to 1.0
CATEGORY_WEIGHTS_Short ==
    [assertions |-> 30, clarity |-> 25, isolation |-> 20, simplicity |-> 15,
     performance |-> 5]

\* weights in hundredths
CATEGORY_WEIGHTS ==
    [assertions |-> 30, clarity |-> 25, isolation |-> 20, simplicity |-> 15,
     performance |-> 10]

ANALYZER_CATEGORIES ==
    [assertions |-> "assertions", naming |-> "clarity", isolation |-> "isolation",
     isolation_runtime |-> "isolation", complexity |-> "simplicity",
     patterns |-> "simplicity", performance |-> "performance", smells |-> "clarity"]

\* an Error costs no more than a Warning
SEVERITY_PENALTIES_Flat == [error |-> 5, warning |-> 5, info |-> 1]

SEVERITY_PENALTIES == [error |-> 15, warning |-> 5, info |-> 1]

CRITICAL_PENALTIES == ("assertions.missing" :> 20) @@ ("assertions.trivial" :> 10)

---------------------------------------------------------------------------
(* scoring.py: ScoreBreakdown, CategoryScore and the engine's methods.      *)

\* ScoreBreakdown(total_tests=...) with the dataclass defaults
ScoreBreakdown(total_tests) ==
    [total_score |-> Pts(100), grade |-> "A", categories |-> <<>>, penalties |-> <<>>,
     total_tests |-> total_tests, total_issues |-> 0, error_count |-> 0,
     warning_count |-> 0, info_count |-> 0]

\* for result in results: for issue in result.issues -- as (result, issue) pairs
RECURSIVE IssuePairs(_)
IssuePairs(rs) ==
    IF rs = <<>> THEN <<>>
    ELSE [j \in 1..Len(Head(rs).issues) |-> <<Head(rs), Head(rs).issues[j]>>]
         \o IssuePairs(Tail(rs))

CountSeverity(rs, sev) ==
    Len(SelectSeq(IssuePairs(rs), LAMBDA p : p[2].severity = sev))

\* ANALYZER_CATEGORIES.get(name)
AnalyzerCategory(name) ==
    IF name \in DOMAIN ANALYZER_CATEGORIES THEN ANALYZER_CATEGORIES[name] ELSE None

_group_by_category(self_results) ==
    [c \in {CategoryNames[k] : k \in 1..Len(CategoryNames)} |->
        SelectSeq(IssuePairs(self_results),
                  LAMBDA p : AnalyzerCategory(p[1].analyzer_name) = c)]

_calculate_category_score(category_name, weight, issues, total_tests) ==
    LET total_penalty ==
            SumSeq([k \in 1..Len(issues) |->
                       IF issues[k][2].severity \in DOMAIN SEVERITY_PENALTIES
                       THEN SEVERITY_PENALTIES[issues[k][2].severity] ELSE 0])
        normalized_penalty ==
            IF total_tests > 0 THEN (total_penalty * ScoreScale) \div total_tests ELSE 0
        raw_score ==
            IF issues = <<>> THEN Pts(100) ELSE Max(0, Pts(100) - normalized_penalty)
    IN  [name |-> category_name, weight |-> weight, raw_score |-> raw_score,
         weighted_score |-> (raw_score * weight) \div 100,
         issue_count |-> Len(issues)]

\* boundaries taken with > instead of >=
_score_to_grade_Strict(score) ==
    IF score > Pts(90) THEN "A"
    ELSE IF score > Pts(80) THEN "B"
    ELSE IF score > Pts(70) THEN "C"
    ELSE IF score > Pts(60) THEN "D"
    ELSE "F"

_score_to_grade(score) ==
    IF score >= Pts(90) THEN "A"
    ELSE IF score >= Pts(80) THEN "B"
    ELSE IF score >= Pts(70) THEN "C"
    ELSE IF score >= Pts(60) THEN "D"
    ELSE "F"

\* one penalty per critical rule instead of one per issue
CriticalPenalties_OncePerRule(rs) ==
    LET critical == SelectSeq(IssuePairs(rs),
                              LAMBDA p : p[2].rule \in DOMAIN CRITICAL_PENALTIES)
        first == SelectSeq([k \in 1..Len(critical) |-> <<k, critical[k][2].rule>>],
                           LAMBDA e : \A m \in 1..(e[1] - 1) : critical[m][2].rule /= e[2])
    IN  [k \in 1..Len(first) |-> <<first[k][2], CRITICAL_PENALTIES[first[k][2]]>>]

\* the (rule, penalty) entries of "Apply critical penalties"
CriticalPenalties(rs) ==
    LET critical == SelectSeq(IssuePairs(rs),
                              LAMBDA p : p[2].rule \in DOMAIN CRITICAL_PENALTIES)
    IN  [k \in 1..Len(critical) |->
            <<critical[k][2].rule, CRITICAL_PENALTIES[critical[k][2].rule]>>]

\* the lower clamp left out
ClampScore_NoFloor(categories, penalties) ==
    LET weighted_sum == SumSeq([k \in 1..Len(categories) |-> categories[k].weighted_score])
        total_penalty == SumSeq([k \in 1..Len(penalties) |-> Pts(penalties[k][2])])
    IN  Min(Pts(100), weighted_sum - total_penalty)

\* max(0.0, min(100.0, weighted_sum - total_penalty))
ClampScore(categories, penalties) ==
    LET weighted_sum == SumSeq([k \in 1..Len(categories) |-> categories[k].weighted_score])
        total_penalty == SumSeq([k \in 1..Len(penalties) |-> Pts(penalties[k][2])])
    IN  Max(0, Min(Pts(100), weighted_sum - total_penalty))

\* calculate_score past the total_tests == 0 return (lines 117-151)
ScoreWithTests(self_results, rs, total_tests) ==
    LET category_issues == _group_by_category(self_results)
        categories ==
            [k \in 1..Len(CategoryNames) |->
                _calculate_category_score(CategoryNames[k],
                                          CATEGORY_WEIGHTS[CategoryNames[k]],
                                          category_issues[CategoryNames[k]],
                                          total_tests)]
        penalties == CriticalPenalties(rs)
        total_score == ClampScore(categories, penalties)
    IN  [total_score |-> total_score,
         grade |-> _score_to_grade(total_score),
         categories |-> categories,
         penalties |-> penalties,
         total_tests |-> total_tests,
         total_issues |-> Len(IssuePairs(rs)),
         error_count |-> CountSeverity(rs, "error"),
         warning_count |-> CountSeverity(rs, "warning"),
         info_count |-> CountSeverity(rs, "info")]

\* the total_tests == 0 return left out
calculate_score_NoShortCircuit(self_results, rs, total_tests) ==
    ScoreWithTests(self_results, rs, total_tests)

\* calculate_score on an engine whose self._results is self_results
calculate_score(self_results, rs, total_tests) ==
    IF total_tests = 0 THEN ScoreBreakdown(total_tests)
    ELSE ScoreWithTests(self_results, rs, total_tests)

---------------------------------------------------------------------------
(* The run that feeds the engine: results are appended, issues are added   *)
(* to the newest result, and the finished list is scored once.             *)

\* Analyzers in the order run_analysis visits them (plugin.py), then a name
\* ANALYZER_CATEGORIES does not hold (DummyAnalyzer of tests/test_analyzers_base.py).
AnalyzerOrder == <<"assertions", "naming", "dummy">>
AnalyzerNames == {AnalyzerOrder[k] : k \in 1..Len(AnalyzerOrder)}
OrderOf(name) == CHOOSE k \in 1..Len(AnalyzerOrder) : AnalyzerOrder[k] = name
Rules == {"assertions.missing", "assertions.trivial", "naming.too_short"}
IssueOf(rule, severity) == Issue(rule, "", severity, 0, None)
Issues == {IssueOf(r, s) : r \in Rules, s \in Severity}

Last(s) == s[Len(s)]

\* no runtime observer, no plugin and no configuration file in this run
RuntimeIdle ==
    /\ perf = None
    /\ iso = None
    /\ modules = EmptyMap
    /\ last_call = None

PluginIdle ==
    /\ plugin = None
    /\ session = None

ConfigIdle ==
    /\ config_file = None
    /\ config_data = None
    /\ review_config = None

\* no static analysis in this run
AnalyzerIdle ==
    /\ test_info = <<>>
    /\ an_options = EmptyMap
    /\ an_result = AnalyzerResult("")
    /\ an_pc = "idle"
    /\ visitor = None
    /\ an_instance = None

ScoringInit ==
    /\ results = <<>>
    /\ engine = [_results |-> <<>>, _total_tests |-> 0]
    /\ breakdown = ScoreBreakdown(0)
    /\ score_pc = "collect"
    /\ AnalyzerIdle
    /\ RuntimeIdle
    /\ PluginIdle
    /\ ConfigIdle

\* a new AnalyzerResult joins the list, analyzer after analyzer
NewResult(name) ==
    /\ score_pc = "collect"
    /\ Len(results) < MaxResults
    /\ results /= <<>> => /\ Len(Last(results).issues) <= 1
                          /\ OrderOf(Last(results).analyzer_name) < OrderOf(name)
    /\ results' = Append(results, AnalyzerResult(name))
    /\ UNCHANGED <<engine, breakdown, score_pc, analyzerVars, runtimeVars, pluginVars, configVars>>

\* result.add_issue(issue) on the newest result; past its first issue the
\* result takes further copies of it (the same finding on many tests)
AddIssue(issue) ==
    /\ score_pc = "collect"
    /\ results /= <<>>
    /\ LET r == Last(results)
       IN  /\ Len(r.issues) < MaxRun
           /\ r.issues /= <<>> => issue = Last(r.issues)
           /\ results' = [results EXCEPT ![Len(results)] = add_issue(r, issue)]
    /\ UNCHANGED <<engine, breakdown, score_pc, analyzerVars, runtimeVars, pluginVars, configVars>>

\* breakdown = engine.calculate_score(results, total_tests)
CalculateScore(total_tests) ==
    /\ score_pc = "collect"
    /\ engine' = [_results |-> results, _total_tests |-> total_tests]
    /\ breakdown' = calculate_score(results, results, total_tests)
    /\ score_pc' = "scored"
    /\ UNCHANGED <<results, analyzerVars, runtimeVars, pluginVars, configVars>>

ScoringNext ==
    \/ \E name \in AnalyzerNames : NewResult(name)
    \/ \E issue \in Issues : AddIssue(issue)
    \/ \E total_tests \in 0..MaxTests : CalculateScore(total_tests)

SpecScoring == ScoringInit /\ [][ScoringNext]_vars

---------------------------------------------------------------------------
(* Properties of the scoring engine, checked under SpecScoring.            *)

Scored == score_pc = "scored"

\* (i, j): issue j of result i
Positions(rs) ==
    {p \in (1..Len(rs)) \X (1..MaxRun) : p[2] <= Len(rs[p[1]].issues)}

IssueAt(rs, p) == rs[p[1]].issues[p[2]]

ErrorPositions(rs) == {p \in Positions(rs) : IssueAt(rs, p).severity = "error"}

CriticalPositions(rs) ==
    {p \in Positions(rs) :
        IssueAt(rs, p).rule \in {"assertions.missing", "assertions.trivial"}}

\* the input with one issue replaced
ReplaceIssue(rs, p, issue) == [rs EXCEPT ![p[1]].issues[p[2]] = issue]

\* what a fresh engine returns for (rs, total_tests)
FreshScore(rs, total_tests) == calculate_score(rs, rs, total_tests)

CategoryNamed(b, c) == b.categories[CHOOSE k \in 1..Len(b.categories) : b.categories[k].name = c]

\* C1: after calculate_score, 0 <= total_score <= 100 for every results list
\* and every total_tests, whatever the number of Error or critical issues.
C1_ScoreClamped ==
    Scored => (0 <= breakdown.total_score /\ breakdown.total_score <= Pts(100))

\* C1 witness: a list of five or more critical Error issues was scored and
\* the lower clamp produced 0.
C1_Witness ==
    /\ Scored
    /\ breakdown.error_count >= 5
    /\ Len(breakdown.penalties) >= 5
    /\ breakdown.total_score = 0

\* C2: when no result carries an issue, calculate_score returns 100.0,
\* grade "A" and total_issues = 0, for every total_tests.
C2_NoIssuesPerfect ==
    (Scored /\ \A i \in 1..Len(results) : results[i].issues = <<>>)
        => /\ breakdown.total_score = Pts(100)
           /\ breakdown.grade = "A"
           /\ breakdown.total_issues = 0

\* C2 witness: two results without issues were scored for MaxTests tests.
C2_Witness ==
    /\ Scored
    /\ Len(results) = 2
    /\ \A i \in 1..Len(results) : results[i].issues = <<>>
    /\ breakdown.total_tests = MaxTests
    /\ breakdown.total_score = Pts(100)

\* C3: with total_tests = 0, calculate_score returns 100.0 and "A" for every
\* results list; no category penalty and no critical penalty is applied.
C3_ZeroTestsShortCircuit ==
    (Scored /\ engine._total_tests = 0)
        => /\ breakdown.total_score = Pts(100)
           /\ breakdown.grade = "A"
           /\ breakdown.penalties = <<>>
           /\ \A k \in 1..Len(breakdown.categories) :
                  breakdown.categories[k].raw_score = Pts(100)

\* C3 witness: a list holding critical Error issues was scored with
\* total_tests = 0.
C3_Witness ==
    /\ Scored
    /\ engine._total_tests = 0
    /\ \E p \in Positions(results) :
           IssueAt(results, p) = IssueOf("assertions.missing", "error")
    /\ \E p \in Positions(results) :
           IssueAt(results, p) = IssueOf("assertions.trivial", "error")
    /\ breakdown.total_score = Pts(100)

\* the breakdown of the scored input with the Error issue at p made a Warning
WarningScore(p) ==
    FreshScore(ReplaceIssue(results, p, [IssueAt(results, p) EXCEPT !.severity = "warning"]),
               engine._total_tests)

\* C4 as claimed: with total_tests >= 1, the input holding an Error issue
\* scores strictly lower than the same input with that issue a Warning.
C4_ErrorStrictlyLower ==
    (Scored /\ engine._total_tests >= 1)
        => \A p \in ErrorPositions(results) :
               breakdown.total_score < WarningScore(p).total_score

\* C4 as amended: the Error input never scores higher than the Warning
\* input, and scores strictly lower exactly when the issue's analyzer maps to
\* a scoring category and, in the Warning input's breakdown, that category's
\* raw score and the total score are both above 0.
C4_ErrorLowerUnlessClamped ==
    (Scored /\ engine._total_tests >= 1)
        => \A p \in ErrorPositions(results) :
               LET w == WarningScore(p)
                   c == AnalyzerCategory(results[p[1]].analyzer_name)
               IN  /\ breakdown.total_score <= w.total_score
                   /\ breakdown.total_score < w.total_score
                        <=> /\ c /= None
                            /\ CategoryNamed(w, c).raw_score > 0
                            /\ w.total_score > 0

\* C4 witness: an Error issue of a mapped analyzer was scored, and the score
\* is above 0 and strictly below that of the Warning input.
C4_Witness ==
    /\ Scored
    /\ engine._total_tests >= 1
    /\ \E p \in ErrorPositions(results) :
           /\ AnalyzerCategory(results[p[1]].analyzer_name) /= None
           /\ 0 < breakdown.total_score
           /\ breakdown.total_score < WarningScore(p).total_score

\* C5 as claimed: every breakdown lists exactly the five fixed categories,
\* each once, for every total_tests >= 0.
C5_FiveCategories ==
    Scored => [k \in 1..Len(breakdown.categories) |-> breakdown.categories[k].name]
                  = CategoryNames

\* the breakdown of the scored input with the critical issue at p given a
\* rule that is not critical
NonCriticalScore(p) ==
    FreshScore(ReplaceIssue(results, p, [IssueAt(results, p) EXCEPT !.rule = "naming.too_short"]),
               engine._total_tests)

EntriesFor(rule) ==
    {k \in 1..Len(breakdown.penalties) : breakdown.penalties[k][1] = rule}

\* C6: with total_tests >= 1 the penalties list has one entry per issue with
\* a critical rule (assertions.missing 20, assertions.trivial 10), on top of
\* the category's severity penalty; an input scores lower than the same
\* input with the critical rule replaced; one Error assertions.missing issue
\* as the sole result with total_tests = 1 gives one entry and a score < 100.
C6_CriticalPenalties ==
    (Scored /\ engine._total_tests >= 1)
        => /\ Len(breakdown.penalties) = Cardinality(CriticalPositions(results))
           /\ \A k \in 1..Len(breakdown.penalties) :
                  breakdown.penalties[k] \in {<<"assertions.missing", 20>>,
                                              <<"assertions.trivial", 10>>}
           /\ \A rule \in {"assertions.missing", "assertions.trivial"} :
                  Cardinality(EntriesFor(rule))
                      = Cardinality({p \in Positions(results) : IssueAt(results, p).rule = rule})
           /\ \A p \in CriticalPositions(results) :
                  LET n == NonCriticalScore(p).total_score
                  IN  /\ breakdown.total_score <= n
                      /\ n > 0 => breakdown.total_score < n
           /\ \A name \in AnalyzerNames :
                  (engine._total_tests = 1
                   /\ results = <<add_issue(AnalyzerResult(name),
                                            IssueOf("assertions.missing", "error"))>>)
                      => /\ breakdown.total_score < Pts(100)
                         /\ breakdown.penalties = <<(<<"assertions.missing", 20>>)>>
                         /\ breakdown.total_score < NonCriticalScore(<<1, 1>>).total_score
                         /\ name = "assertions" => 2 * breakdown.total_score = Pts(151)

\* C6 witness: issues of both critical rules were scored with
\* total_tests >= 1 and each has its entry.
C6_Witness ==
    /\ Scored
    /\ engine._total_tests >= 1
    /\ EntriesFor("assertions.missing") /= {}
    /\ EntriesFor("assertions.trivial") /= {}
    /\ breakdown.total_score > 0

\* C7: the grade of every breakdown is the letter of its total_score:
\* A for >= 90, B for [80, 90), C for [70, 80), D for [60, 70), F below 60.
C7_GradeFromScore ==
    Scored =>
        LET s == breakdown.total_score
            g == breakdown.grade
        IN  /\ g = "A" <=> s >= Pts(90)
            /\ g = "B" <=> (Pts(80) <= s /\ s < Pts(90))
            /\ g = "C" <=> (Pts(70) <= s /\ s < Pts(80))
            /\ g = "D" <=> (Pts(60) <= s /\ s < Pts(70))
            /\ g = "F" <=> s < Pts(60)

\* C7 witness: a scored input with issues whose total_score is exactly 90,
\* graded A.
C7_Witness ==
    /\ Scored
    /\ breakdown.total_issues > 0
    /\ breakdown.total_score = Pts(90)
    /\ breakdown.grade = "A"

---------------------------------------------------------------------------
(* The syntax tree of a test function (Python's ast module).  A node is    *)
(* [type, tag, val, lineno, kids]: kids are the child nodes in the order   *)
(* ast.iter_child_nodes yields them (operator and context nodes, which     *)
(* no visitor looks at, are folded into tag).                              *)

Node(type, tag, val, kids) ==
    [type |-> type, tag |-> tag, val |-> val, lineno |-> 0, kids |-> kids]

Name(id) == Node("Name", id, 0, <<>>)
\* kind "bool": val 1 is True, 0 is False; "int" and "float": the number;
\* "str": the length of the string
Constant(kind, value) == Node("Constant", kind, value, <<>>)
Attribute(value, attr) == Node("Attribute", attr, 0, <<value>>)
Call(func, args) == Node("Call", "", 0, <<func>> \o args)
UnaryOp(op, operand) == Node("UnaryOp", op, 0, <<operand>>)
BoolOp(op, values) == Node("BoolOp", op, 0, values)
\* left op c1 op c2 ...: val is len(ops)
Compare(left, op, comparators) ==
    Node("Compare", op, Len(comparators), <<left>> \o comparators)
\* msg is <<>> (no message) or <<expr>>
AssertStmt(test, msg) == Node("Assert", "", Len(msg), <<test>> \o msg)
PassStmt == Node("Pass", "", 0, <<>>)
ExprStmt(value) == Node("Expr", "", 0, <<value>>)
\* val is the number of items; the body follows them
WithStmt(items, body) == Node("With", "", Len(items), items \o body)
\* val is the number of decorators; they follow the body (field order of
\* ast.FunctionDef: args, body, decorator_list)
FunctionDef(name, body, decorator_list) ==
    Node("FunctionDef", name, Len(decorator_list), body \o decorator_list)

\* an If holds its test, its body and its orelse: val is the number of orelse
\* statements, and an orelse that is one If is an elif
If(test, body, orelse) == Node("If", "", Len(orelse), <<test>> \o body \o orelse)
IfOrelse(node) == SubSeq(node.kids, Len(node.kids) - node.val + 1, Len(node.kids))
IfBody(node) == SubSeq(node.kids, 2, Len(node.kids) - node.val)
IsElif(node) == node.val = 1 /\ IfOrelse(node)[1].type = "If"

\* the nodes that start a source line of their own: the statements and the
\* except clauses
StmtTypes ==
    {"Assert", "Pass", "Expr", "With", "FunctionDef", "Assign", "AugAssign", "Return",
     "If", "For", "While", "Try", "ExceptHandler", "Global"}
IsStmt(node) == node.type \in StmtTypes

\* node.test and node.msg of an Assert (msg None is <<>>)
AssertTest(node) == node.kids[1]
AssertMsg(node) == SubSeq(node.kids, 2, Len(node.kids))

\* Source lines: a statement takes one line and the statements nested in it
\* the lines that follow; an expression is on the line of its statement; the
\* decorators of a def take the lines before it, and "else:" takes a line.
RECURSIVE Lines(_), LinesOfSeq(_)
Lines(node) ==
    IF IsStmt(node)
    THEN 1 + LinesOfSeq(node.kids)
           + (IF node.type = "FunctionDef" THEN node.val ELSE 0)
           + (IF node.type = "If" /\ node.val > 0 /\ ~IsElif(node) THEN 1 ELSE 0)
    ELSE 0
LinesOfSeq(nodes) ==
    IF nodes = <<>> THEN 0 ELSE Lines(Head(nodes)) + LinesOfSeq(Tail(nodes))

RECURSIVE Stamp(_, _), StampKids(_, _, _)
Stamp(node, line) ==
    IF node.type = "FunctionDef"
    THEN \* each decorator on a line of its own, then the def line, then the body
         LET def_line == line + node.val
             body == SubSeq(node.kids, 1, Len(node.kids) - node.val)
             decorator_list == SubSeq(node.kids, Len(node.kids) - node.val + 1, Len(node.kids))
         IN  [node EXCEPT !.lineno = def_line,
                          !.kids = StampKids(body, def_line, def_line + 1)
                                   \o [k \in 1..node.val |->
                                          Stamp(decorator_list[k], line + k - 1)]]
    ELSE IF node.type = "If" /\ node.val > 0 /\ ~IsElif(node)
    THEN \* the line of "else:" comes between the body and the orelse
         LET upper == <<node.kids[1]>> \o IfBody(node)
         IN  [node EXCEPT !.lineno = line,
                          !.kids = StampKids(upper, line, line + 1)
                                   \o StampKids(IfOrelse(node), line,
                                                line + 2 + LinesOfSeq(upper))]
    ELSE [node EXCEPT !.lineno = line, !.kids = StampKids(node.kids, line, line + 1)]
StampKids(nodes, line, next) ==
    IF nodes = <<>> THEN <<>>
    ELSE IF IsStmt(Head(nodes))
         THEN <<Stamp(Head(nodes), next)>>
              \o StampKids(Tail(nodes), line, next + Lines(Head(nodes)))
         ELSE <<Stamp(Head(nodes), line)>> \o StampKids(Tail(nodes), line, next)

\* ast.dump(node): type, fields and children in order, without the
\* lineno/col_offset attributes
RECURSIVE dump(_), DumpSeq(_)
dump(node) ==
    <<node.type, node.tag, node.val, Len(node.kids)>> \o DumpSeq(node.kids)
DumpSeq(nodes) ==
    IF nodes = <<>> THEN <<>> ELSE dump(Head(nodes)) \o DumpSeq(Tail(nodes))

\* ast.walk(node): breadth-first, the node itself first
RECURSIVE WalkQueue(_)
WalkQueue(todo) ==
    IF todo = <<>> THEN <<>>
    ELSE <<Head(todo)>> \o WalkQueue(Tail(todo) \o Head(todo).kids)
walk(node) == WalkQueue(<<node>>)

\* TestItemInfo for "def test_f(): <body>" parsed from line 1
TestItemInfo(body) ==
    [name |-> "test_f", line |-> 1, node |-> Stamp(FunctionDef("test_f", body, <<>>), 1)]

\* Analyzer.get_option
get_option(opts, name, default) ==
    IF name \in DOMAIN opts THEN opts[name] ELSE default

\* Python's "value or default" on an int
OrElse(value, default) == IF value = 0 THEN default ELSE value

---------------------------------------------------------------------------
(* analyzers/assertions.py: AssertionVisitor and AssertionsAnalyzer.        *)

AssertionVisitor == [assertions |-> <<>>, pytest_assertions |-> <<>>, trivial_assertions |-> <<>>]

_check_trivial(v, node) ==
    LET t == AssertTest(node)
        add(reason) == [v EXCEPT !.trivial_assertions = Append(@, <<node, reason>>)]
    IN  IF t.type = "Constant"
          THEN IF t.tag = "bool" /\ t.val = 1 THEN add("assert True")
               ELSE IF t.tag = "bool" /\ t.val = 0 THEN add("assert False")
               ELSE v
        ELSE IF t.type = "Constant" /\ t.val /= 0
          THEN add("assert " \o ToString(t.val) \o " (always truthy)")
        ELSE IF t.type = "Compare"
          THEN IF t.val = 1 /\ t.tag = "Eq"
               THEN IF dump(t.kids[1]) = dump(t.kids[2])
                    THEN add("comparing value to itself")
                    ELSE v
               ELSE v
        ELSE v

RECURSIVE AV_visit(_, _), AV_generic_visit(_, _), AV_visit_all(_, _)

AV_visit_Assert(v, node) ==
    AV_generic_visit(
        _check_trivial([v EXCEPT !.assertions = Append(@, node)], node), node)

AV_visit_Call(v, node) ==
    LET func == node.kids[1]
        helper == /\ func.type = "Attribute"
                  /\ func.kids[1].type = "Name"
                  /\ func.kids[1].tag = "pytest"
                  /\ func.tag \in {"raises", "warns", "approx"}
    IN  AV_generic_visit(
            IF helper THEN [v EXCEPT !.pytest_assertions = Append(@, node)] ELSE v,
            node)

\* ast.NodeVisitor.visit: visit_<type> when the visitor has it
AV_visit(v, node) ==
    IF node.type = "Assert" THEN AV_visit_Assert(v, node)
    ELSE IF node.type = "Call" THEN AV_visit_Call(v, node)
    ELSE AV_generic_visit(v, node)

AV_generic_visit(v, node) == AV_visit_all(v, node.kids)

\* the children in order; w is the visitor after the first child
AV_visit_all(v, nodes) ==
    IF nodes = <<>> THEN v
    ELSE CHOOSE r \in {AV_visit_all(w, Tail(nodes)) : w \in {AV_visit(v, Head(nodes))}} : TRUE

total_assertions(v) == Len(v.assertions) + Len(v.pytest_assertions)

\* AssertionsAnalyzer.__init__
AssertionsAnalyzer_min_assertions(opts) == OrElse(get_option(opts, "min_assertions", 1), 1)

TrivialIssues(v, t) ==
    [k \in 1..Len(v.trivial_assertions) |->
        Issue("assertions.trivial",
              "Trivial assertion: " \o v.trivial_assertions[k][2],
              "error", v.trivial_assertions[k][1].lineno, t.name)]

AssertionsMetadata(v) ==
    ("assertion_count" :> total_assertions(v)) @@ ("trivial_count" :> Len(v.trivial_assertions))

\* the insufficient check not chained to the missing check with elif
Assertions_analyze_ast_NoElif(t, res, _min_assertions) ==
    LET v == AV_visit(AssertionVisitor, t.node)
        missing ==
            IF total_assertions(v) = 0
            THEN <<Issue("assertions.missing", "Test has no assertions", "error", t.line, t.name)>>
            ELSE <<>>
        insufficient ==
            IF total_assertions(v) < _min_assertions
            THEN <<Issue("assertions.insufficient",
                         "Test has only " \o ToString(total_assertions(v))
                             \o " assertion(s), minimum is " \o ToString(_min_assertions),
                         "warning", t.line, t.name)>>
            ELSE <<>>
    IN  [res EXCEPT !.issues = @ \o missing \o insufficient \o TrivialIssues(v, t),
                    !.metadata = AssertionsMetadata(v)]

\* AssertionsAnalyzer._analyze_ast
Assertions_analyze_ast(t, res, _min_assertions) ==
    LET v == AV_visit(AssertionVisitor, t.node)
        counted ==
            IF total_assertions(v) = 0
            THEN <<Issue("assertions.missing", "Test has no assertions", "error", t.line, t.name)>>
            ELSE IF total_assertions(v) < _min_assertions
            THEN <<Issue("assertions.insufficient",
                         "Test has only " \o ToString(total_assertions(v))
                             \o " assertion(s), minimum is " \o ToString(_min_assertions),
                         "warning", t.line, t.name)>>
            ELSE <<>>
    IN  [res EXCEPT !.issues = @ \o counted \o TrivialIssues(v, t),
                    !.metadata = AssertionsMetadata(v)]

\* StaticAnalyzer.analyze for an AssertionsAnalyzer built from opts
AssertionsAnalyzer_analyze(opts, t) ==
    Assertions_analyze_ast(t, AnalyzerResult("assertions"),
                           AssertionsAnalyzer_min_assertions(opts))

---------------------------------------------------------------------------
(* Static analysis of one test by the Assertion analyzer.                  *)

MaxStmts == 2           \* statements in a test body
MaxMinAssertions == 3   \* configured min_assertions ranges over 0..MaxMinAssertions

x == Name("x")
y == Name("y")
True == Constant("bool", 1)
False == Constant("bool", 0)
Num(n) == Constant("int", n)
pytest_helper(attr, args) == Call(Attribute(Name("pytest"), attr), args)

AssertionStatements ==
    { AssertStmt(True, <<>>),
      AssertStmt(False, <<>>),
      AssertStmt(UnaryOp("Not", False), <<>>),
      AssertStmt(Compare(x, "Eq", <<x>>), <<>>),
      AssertStmt(Compare(x, "Eq", <<y>>), <<>>),
      AssertStmt(Num(1), <<>>),
      AssertStmt(Constant("str", 4), <<>>),
      AssertStmt(Compare(Num(1), "Eq", <<Num(1)>>), <<>>),
      AssertStmt(Compare(x, "Eq", <<x, x>>), <<>>),
      AssertStmt(Compare(x, "NotEq", <<x>>), <<>>),
      AssertStmt(Compare(x, "Eq", <<pytest_helper("approx", <<Num(1)>>)>>), <<>>),
      PassStmt,
      ExprStmt(Call(Name("f"), <<x>>)),
      WithStmt(<<pytest_helper("raises", <<Name("E")>>)>>, <<ExprStmt(Call(Name("f"), <<x>>))>>) }

\* a function body holds at least one statement
Bodies(statements) == UNION {[1..n -> statements] : n \in 1..MaxStmts}

AssertionOptions ==
    {EmptyMap} \cup {("min_assertions" :> m) : m \in 0..MaxMinAssertions}

\* no scoring in this run
ScoringIdle ==
    /\ results = <<>>
    /\ engine = [_results |-> <<>>, _total_tests |-> 0]
    /\ breakdown = ScoreBreakdown(0)
    /\ score_pc = "idle"

AssertionsInit ==
    /\ ScoringIdle
    /\ RuntimeIdle
    /\ PluginIdle
    /\ ConfigIdle
    /\ test_info \in {TestItemInfo(b) : b \in Bodies(AssertionStatements)}
    /\ an_options \in AssertionOptions
    /\ an_result = AnalyzerResult("")
    /\ an_pc = "ready"
    /\ visitor = None
    /\ an_instance = None

\* result = AssertionsAnalyzer(config).analyze(test)
AnalyzeAssertions ==
    /\ an_pc = "ready"
    /\ an_result' = AssertionsAnalyzer_analyze(an_options, test_info)
    /\ an_pc' = "done"
    /\ UNCHANGED <<test_info, an_options, visitor, an_instance, scoringVars, runtimeVars, pluginVars, configVars>>

AssertionsNext == AnalyzeAssertions

SpecAssertions == AssertionsInit /\ [][AssertionsNext]_vars

---------------------------------------------------------------------------
(* Properties of the Assertion analyzer, checked under SpecAssertions.     *)

Analyzed == an_pc = "done"

IssuesWithRule(rule) == SelectSeq(an_result.issues, LAMBDA i : i.rule = rule)

IsPytestHelper(node) ==
    /\ node.type = "Call"
    /\ node.kids[1].type = "Attribute"
    /\ node.kids[1].tag \in {"raises", "warns", "approx"}
    /\ node.kids[1].kids[1] = [Name("pytest") EXCEPT !.lineno = node.lineno]

\* assert statements and pytest.raises/warns/approx calls anywhere in the test
AssertsOf(t) == SelectSeq(walk(t.node), LAMBDA n : n.type = "Assert")
TotalAssertionCount(t) ==
    Len(AssertsOf(t)) + Len(SelectSeq(walk(t.node), IsPytestHelper))

ConfiguredMinimum == get_option(an_options, "min_assertions", 1)

\* C8: by its total assertion count (asserts plus pytest.raises/warns/approx
\* calls) against the configured minimum a test gets: total = 0, exactly one
\* assertions.missing and no assertions.insufficient; 0 < total < minimum,
\* exactly one assertions.insufficient and no assertions.missing;
\* total >= minimum (and not 0), neither.
C8_MissingOrInsufficient ==
    Analyzed =>
        LET total == TotalAssertionCount(test_info)
            missing == Len(IssuesWithRule("assertions.missing"))
            insufficient == Len(IssuesWithRule("assertions.insufficient"))
        IN  /\ total = 0 => (missing = 1 /\ insufficient = 0)
            /\ (0 < total /\ total < ConfiguredMinimum)
                   => (insufficient = 1 /\ missing = 0)
            /\ (0 < total /\ total >= ConfiguredMinimum)
                   => (missing = 0 /\ insufficient = 0)

\* C8 witness: a test with two assertions was analyzed under a minimum of
\* three and got its assertions.insufficient issue.
C8_Witness ==
    /\ Analyzed
    /\ TotalAssertionCount(test_info) = 2
    /\ ConfiguredMinimum = 3
    /\ Len(IssuesWithRule("assertions.insufficient")) = 1

IsConstantBool(node, b) == node.type = "Constant" /\ node.tag = "bool" /\ node.val = b

IsSingleEquality(node) == node.type = "Compare" /\ node.tag = "Eq" /\ node.val = 1

\* the assertions.trivial issues reported for the assert on a line
TrivialAt(line) ==
    Len(SelectSeq(an_result.issues,
                  LAMBDA i : i.rule = "assertions.trivial" /\ i.line = line))

\* C9 as claimed: each "assert True", "assert not False" and "assert e == e"
\* yields exactly one assertions.trivial issue, and "assert e == f" with
\* distinct e and f yields none.
C9_TrivialPerOccurrence ==
    Analyzed =>
        \A k \in 1..Len(AssertsOf(test_info)) :
            LET a == AssertsOf(test_info)[k]
                t == AssertTest(a)
            IN  /\ IsConstantBool(t, 1) => TrivialAt(a.lineno) = 1
                /\ (t.type = "UnaryOp" /\ t.tag = "Not" /\ IsConstantBool(t.kids[1], 0))
                       => TrivialAt(a.lineno) = 1
                /\ (IsSingleEquality(t) /\ t.kids[1] = t.kids[2])
                       => TrivialAt(a.lineno) = 1
                /\ (IsSingleEquality(t) /\ t.kids[1] /= t.kids[2])
                       => TrivialAt(a.lineno) = 0

---------------------------------------------------------------------------
(* analyzers/smells.py: SmellsAnalyzer and SmellVisitor.                    *)

\* SmellsAnalyzer.__init__: the three options with their defaults
SmellsAnalyzer(opts) ==
    [_max_assertions_without_message |-> get_option(opts, "max_assertions_without_message", 1),
     _check_magic_numbers |-> get_option(opts, "check_magic_numbers", TRUE),
     _check_eager_test |-> get_option(opts, "check_eager_test", TRUE)]

\* an allow-list that also holds 3
ALLOWED_MAGIC_NUMBERS_WithThree == {0, 1, -1, 2, 3, 100, 1000}

ALLOWED_MAGIC_NUMBERS == {0, 1, -1, 2, 100, 1000}

\* SmellVisitor.__init__; _result is the AnalyzerResult it adds issues to
SmellVisitor(t, res, analyzer) ==
    [_test |-> t, _result |-> res, _analyzer |-> analyzer, _assertions |-> <<>>,
     _assertion_messages |-> <<>>, _call_targets |-> {}, _has_skip_marker |-> FALSE]

SV_add_issue(v, issue) == [v EXCEPT !._result = add_issue(@, issue)]

\* isinstance(child.value, (int, float)): bool is a subclass of int
IsNumericConstant(node) ==
    node.type = "Constant" /\ node.tag \in {"int", "float", "bool"}

\* f"{child.value}"
FormatNumber(node) ==
    IF node.tag = "float" THEN ToString(node.val) \o ".0"
    ELSE IF node.tag = "bool" THEN (IF node.val = 1 THEN "True" ELSE "False")
    ELSE ToString(node.val)

MagicNumberIssue(v, child) ==
    Issue("smells.magic_number", "Magic number " \o FormatNumber(child) \o " in assertion",
          "info", child.lineno, v._test.name)

\* every offending literal reported: the return after the first one left out
_check_magic_number_NoReturn(v, node) ==
    LET offending == SelectSeq(walk(AssertTest(node)),
                               LAMBDA child : /\ IsNumericConstant(child)
                                              /\ child.val \notin ALLOWED_MAGIC_NUMBERS)
    IN  [v EXCEPT !._result.issues =
            @ \o [k \in 1..Len(offending) |-> MagicNumberIssue(v, offending[k])]]

_check_magic_number(v, node) ==
    LET offending == SelectSeq(walk(AssertTest(node)),
                               LAMBDA child : /\ IsNumericConstant(child)
                                              /\ child.val \notin ALLOWED_MAGIC_NUMBERS)
    IN  IF offending = <<>> THEN v
        ELSE SV_add_issue(v, MagicNumberIssue(v, Head(offending)))

RECURSIVE _extract_call_target(_, _), ExtractAll(_, _)
_extract_call_target(targets, node) ==
    IF node.type = "Call"
      THEN IF node.kids[1].type \in {"Name", "Attribute"}
           THEN targets \cup {node.kids[1].tag}
           ELSE targets
    ELSE IF node.type \in {"Compare", "BoolOp"}
      THEN ExtractAll(targets, node.kids)
    ELSE targets
ExtractAll(targets, nodes) ==
    IF nodes = <<>> THEN targets
    ELSE ExtractAll(_extract_call_target(targets, Head(nodes)), Tail(nodes))

RECURSIVE _get_decorator_name(_)
_get_decorator_name(decorator) ==
    IF decorator.type = "Name" THEN decorator.tag
    ELSE IF decorator.type = "Attribute"
      THEN LET base == decorator.kids[1]
           IN  IF base.type \in {"Name", "Attribute"}
               THEN _get_decorator_name(base) \o "." \o decorator.tag
               ELSE decorator.tag
    ELSE IF decorator.type = "Call" THEN _get_decorator_name(decorator.kids[1])
    ELSE ""

SkipDecorators ==
    {"skip", "skipif", "pytest.mark.skip", "pytest.mark.skipif", "unittest.skip",
     "unittest.skipIf", "unittest.skipUnless"}

DecoratorList(node) == SubSeq(node.kids, Len(node.kids) - node.val + 1, Len(node.kids))

RECURSIVE CheckDecorators(_, _, _)
CheckDecorators(v, node, decorators) ==
    IF decorators = <<>> THEN v
    ELSE LET decorator_name == _get_decorator_name(Head(decorators))
             w == IF decorator_name \in SkipDecorators
                  THEN SV_add_issue([v EXCEPT !._has_skip_marker = TRUE],
                                    Issue("smells.ignored_test",
                                          "Test is skipped with @" \o decorator_name,
                                          "warning", node.lineno, v._test.name))
                  ELSE v
         IN  CheckDecorators(w, node, Tail(decorators))

_check_skip_decorator(v, node) == CheckDecorators(v, node, DecoratorList(node))

_check_assertion_roulette(v) ==
    LET assertions_without_msg == Len(SelectSeq(v._assertion_messages, LAMBDA msg : msg = <<>>))
        threshold == v._analyzer._max_assertions_without_message
    IN  IF Len(v._assertions) <= 1 THEN v
        ELSE IF assertions_without_msg > threshold
        THEN SV_add_issue(v,
                 Issue("smells.assertion_roulette",
                       "Test has " \o ToString(assertions_without_msg)
                           \o " assertions without messages (threshold: "
                           \o ToString(threshold) \o ")",
                       "warning", v._test.line, v._test.name))
        ELSE v

\* the assertions whose condition an earlier assertion already has
DuplicateAssertions(assertions) ==
    SelectSeq([k \in 1..Len(assertions) |-> <<k, assertions[k]>>],
              LAMBDA e : \E m \in 1..(e[1] - 1) :
                             dump(AssertTest(assertions[m])) = dump(AssertTest(e[2])))

_check_duplicate_assertions(v) ==
    LET duplicates == DuplicateAssertions(v._assertions)
    IN  IF duplicates /= <<>>
        THEN SV_add_issue(v,
                 Issue("smells.duplicate_assert",
                       "Test has " \o ToString(Len(duplicates)) \o " duplicate assertion(s)",
                       "warning", duplicates[1][2].lineno, v._test.name))
        ELSE v

ExcludedCallTargets ==
    {"len", "str", "int", "float", "list", "dict", "set", "tuple", "isinstance",
     "hasattr", "getattr", "type", "id", "repr", "sorted", "reversed", "enumerate",
     "zip", "map", "filter", "any", "all", "sum", "min", "max", "abs", "round",
     "assertTrue", "assertFalse", "assertEqual", "assertNotEqual", "assertIn",
     "assertNotIn", "assertIs", "assertIsNot", "assertIsNone", "assertIsNotNone",
     "assertRaises"}

\* the call-target names of the model's tests in sorted() order
SortedNames == <<"approx", "f", "g", "h", "len", "raises", "skip">>
sorted(names) == SelectSeq(SortedNames, LAMBDA n : n \in names)

RECURSIVE Join(_)
Join(names) ==
    IF names = <<>> THEN ""
    ELSE IF Len(names) = 1 THEN Head(names)
    ELSE Head(names) \o ", " \o Join(Tail(names))

_check_eager_test(v) ==
    LET distinct_targets == v._call_targets \ ExcludedCallTargets
        n == Cardinality(distinct_targets)
    IN  IF ~v._analyzer._check_eager_test THEN v
        ELSE IF n > 2
        THEN SV_add_issue(v,
                 Issue("smells.eager_test",
                       "Test calls " \o ToString(n) \o " distinct methods: "
                           \o Join(SubSeq(sorted(distinct_targets), 1, Min(5, n)))
                           \o (IF n > 5 THEN "..." ELSE ""),
                       "info", v._test.line, v._test.name))
        ELSE v

_finalize_checks(v) ==
    _check_eager_test(_check_duplicate_assertions(_check_assertion_roulette(v)))

RECURSIVE SV_visit(_, _), SV_generic_visit(_, _), SV_visit_all(_, _)

SV_visit_Assert(v, node) ==
    LET v1 == [v EXCEPT !._assertions = Append(@, node),
                        !._assertion_messages =
                            Append(@, IF AssertMsg(node) = <<>> THEN <<>>
                                      ELSE dump(AssertMsg(node)[1]))]
        v2 == IF v1._analyzer._check_magic_numbers THEN _check_magic_number(v1, node) ELSE v1
        v3 == IF v2._analyzer._check_eager_test
              THEN [v2 EXCEPT !._call_targets = _extract_call_target(@, AssertTest(node))]
              ELSE v2
    IN  SV_generic_visit(v3, node)

SV_visit_Call(v, node) ==
    SV_generic_visit(
        IF v._analyzer._check_eager_test
        THEN [v EXCEPT !._call_targets = _extract_call_target(@, node)]
        ELSE v,
        node)

SV_visit_FunctionDef(v, node) ==
    _finalize_checks(SV_generic_visit(_check_skip_decorator(v, node), node))

SV_visit(v, node) ==
    IF node.type = "Assert" THEN SV_visit_Assert(v, node)
    ELSE IF node.type = "Call" THEN SV_visit_Call(v, node)
    ELSE IF node.type = "FunctionDef" THEN SV_visit_FunctionDef(v, node)
    ELSE SV_generic_visit(v, node)

SV_generic_visit(v, node) == SV_visit_all(v, node.kids)

\* the children in order; w is the visitor after the first child
SV_visit_all(v, nodes) ==
    IF nodes = <<>> THEN v
    ELSE CHOOSE r \in {SV_visit_all(w, Tail(nodes)) : w \in {SV_visit(v, Head(nodes))}} : TRUE

\* StaticAnalyzer.analyze with SmellsAnalyzer._analyze_ast
SmellsAnalyzer_analyze(opts, t) ==
    SV_visit(SmellVisitor(t, AnalyzerResult("smells"), SmellsAnalyzer(opts)), t.node)._result

---------------------------------------------------------------------------
(* A run of the Structural Smells analyzer over one test function.          *)

f(args) == Call(Name("f"), args)
pytest_mark_skip == Attribute(Attribute(Name("pytest"), "mark"), "skip")

SmellStatements ==
    { AssertStmt(Compare(x, "Eq", <<Num(42)>>), <<>>),
      AssertStmt(Compare(x, "Eq", <<Num(0)>>), <<>>),
      AssertStmt(Compare(x, "Eq", <<Num(1)>>), <<>>),
      AssertStmt(Compare(x, "Eq", <<Num(100)>>), <<>>),
      AssertStmt(Compare(x, "Eq", <<UnaryOp("USub", Num(1))>>), <<>>),
      AssertStmt(Compare(f(<<Num(7)>>), "Eq", <<Num(42)>>), <<>>),
      AssertStmt(Compare(f(<<Num(7)>>), "Eq", <<Num(1)>>), <<>>),
      AssertStmt(BoolOp("And", <<Compare(x, "Eq", <<Num(42)>>),
                                 Compare(y, "Eq", <<Num(43)>>)>>), <<>>),
      AssertStmt(Compare(Num(1), "Eq", <<Num(1)>>), <<>>),
      AssertStmt(Compare(Num(2), "Eq", <<Num(2)>>), <<>>),
      AssertStmt(Compare(Num(3), "Eq", <<Num(3)>>), <<>>),
      AssertStmt(Compare(x, "Eq", <<y>>), <<Constant("str", 3)>>),
      AssertStmt(Compare(x, "Eq", <<Num(1)>>), <<Num(42)>>),
      AssertStmt(Compare(x, "Eq", <<True>>), <<>>),
      AssertStmt(Compare(y, "Eq", <<Constant("float", 7)>>), <<>>),
      PassStmt,
      ExprStmt(Call(Name("g"), <<Call(Name("h"), <<x>>)>>)),
      FunctionDef("helper", <<AssertStmt(Compare(x, "Eq", <<Num(42)>>), <<>>)>>,
                  <<pytest_mark_skip>>) }

SmellOptions ==
    { EmptyMap,
      "check_magic_numbers" :> FALSE,
      "check_eager_test" :> FALSE,
      "max_assertions_without_message" :> 0 }

SmellsInit ==
    /\ ScoringIdle
    /\ RuntimeIdle
    /\ PluginIdle
    /\ ConfigIdle
    /\ test_info \in {TestItemInfo(b) : b \in Bodies(SmellStatements)}
    /\ an_options \in SmellOptions
    /\ an_result = AnalyzerResult("")
    /\ an_pc = "ready"
    /\ visitor = None
    /\ an_instance = None

\* result = SmellsAnalyzer(config).analyze(test)
AnalyzeSmells ==
    /\ an_pc = "ready"
    /\ an_result' = SmellsAnalyzer_analyze(an_options, test_info)
    /\ an_pc' = "done"
    /\ UNCHANGED <<test_info, an_options, visitor, an_instance, scoringVars, runtimeVars, pluginVars, configVars>>

SmellsNext == AnalyzeSmells

SpecSmells == SmellsInit /\ [][SmellsNext]_vars

---------------------------------------------------------------------------
(* Properties of the Structural Smells analyzer.                            *)

MagicNumbersChecked ==
    Analyzed /\ an_result.analyzer_name = "smells"
             /\ get_option(an_options, "check_magic_numbers", TRUE)

\* the smells.magic_number issues reported on the line of an assert
MagicIssuesAt(line) ==
    SelectSeq(IssuesWithRule("smells.magic_number"), LAMBDA i : i.line = line)

\* the int and float literals of an assert's condition that are not one of
\* 0, 1, -1, 2, 100, 1000, in the order ast.walk reaches them
MagicLiterals(a) ==
    SelectSeq(walk(AssertTest(a)),
              LAMBDA n : /\ n.type = "Constant"
                         /\ n.tag \in {"int", "float"}
                         /\ n.val \notin {0, 1, -1, 2, 100, 1000})

MagicMessage(text) == "Magic number " \o text \o " in assertion"

ConditionIs(a, test) == [AssertTest(a) EXCEPT !.lineno = 0] = test

\* the condition of assert a is "left == right" with right on the assert's line
IsEquality(a, left, right) ==
    AssertTest(a) = Stamp(Compare(left, "Eq", <<right>>), a.lineno)

\* C10: with magic-number checking on (the default), every assert statement
\* of the test gets at most one smells.magic_number issue; it gets one
\* exactly when its condition holds a numeric literal outside
\* {0, 1, -1, 2, 100, 1000}, and that issue names the first such literal the
\* walk of the condition reaches.  assert x == 42 gets exactly one issue,
\* citing 42; assert x == 0, assert x == 1 and assert x == 100 get none.
C10_MagicNumberFirstOnly ==
    MagicNumbersChecked =>
        \A k \in 1..Len(AssertsOf(test_info)) :
            LET a == AssertsOf(test_info)[k]
                reported == MagicIssuesAt(a.lineno)
                literals == MagicLiterals(a)
            IN  /\ Len(reported) <= 1
                /\ (reported = <<>>) <=> (literals = <<>>)
                /\ literals /= <<>> =>
                      /\ reported[1].severity = "info"
                      /\ reported[1].message =
                            MagicMessage(IF literals[1].tag = "float"
                                         THEN ToString(literals[1].val) \o ".0"
                                         ELSE ToString(literals[1].val))
                /\ IsEquality(a, x, Num(42)) =>
                      /\ Len(reported) = 1
                      /\ reported[1].message = MagicMessage("42")
                /\ (\E n \in {0, 1, 100} : IsEquality(a, x, Num(n))) => reported = <<>>
                /\ IsEquality(a, f(<<Num(7)>>), Num(42)) =>
                      reported[1].message = MagicMessage("42")
                /\ IsEquality(a, f(<<Num(7)>>), Num(1)) =>
                      reported[1].message = MagicMessage("7")

\* a test of two asserts, "assert x == 42 and y == 43" and "assert x == 100",
\* analysed with default options: one issue, citing 42, on the first assert
C10_Witness ==
    /\ MagicNumbersChecked
    /\ Len(AssertsOf(test_info)) = 2
    /\ Len(MagicLiterals(AssertsOf(test_info)[1])) = 2
    /\ IsEquality(AssertsOf(test_info)[2], x, Num(100))
    /\ Len(IssuesWithRule("smells.magic_number")) = 1
    /\ IssuesWithRule("smells.magic_number")[1].message = MagicMessage("42")
    /\ IssuesWithRule("smells.magic_number")[1].line = 2

---------------------------------------------------------------------------
(* Python dicts keep insertion order: a dict is a sequence of <<key, value>> *)
(* pairs with distinct keys.                                                *)

DictKeys(d) == {d[k][1] : k \in 1..Len(d)}
DictHas(d, key) == key \in DictKeys(d)
DictGet(d, key) == d[CHOOSE k \in 1..Len(d) : d[k][1] = key][2]
\* d[key] = value: an existing key keeps its position
DictSet(d, key, value) ==
    IF DictHas(d, key)
    THEN [k \in 1..Len(d) |-> IF d[k][1] = key THEN <<key, value>> ELSE d[k]]
    ELSE Append(d, <<key, value>>)
\* del d[key] / d.pop(key)
DictDel(d, key) == SelectSeq(d, LAMBDA e : e[1] /= key)
DictValues(d) == [k \in 1..Len(d) |-> d[k][2]]

---------------------------------------------------------------------------
(* analyzers/performance.py: PerformanceAnalyzer.                           *)

\* A duration is a float number of seconds; the model's durations are whole
\* numbers of ticks of half a second, so duration * 1000 is ticks * TickMs.
TickMs == 500
MaxDuration == 4        \* durations range over 0..MaxDuration ticks

\* PerformanceAnalyzer.__init__
PerformanceAnalyzer(opts) ==
    [_slow_threshold_ms |-> OrElse(get_option(opts, "slow_threshold_ms", 500), 500),
     _very_slow_threshold_ms |-> OrElse(get_option(opts, "very_slow_threshold_ms", 2000), 2000),
     _test_durations |-> <<>>,
     _test_results |-> <<>>]

VerySlowIssue(self, test_name, duration_ms) ==
    Issue("performance.very_slow",
          "Test is very slow: " \o ToString(duration_ms) \o "ms (threshold: "
              \o ToString(self._very_slow_threshold_ms) \o "ms)",
          "warning", 0, test_name)

SlowIssue(self, test_name, duration_ms) ==
    Issue("performance.slow",
          "Test is slow: " \o ToString(duration_ms) \o "ms (threshold: "
              \o ToString(self._slow_threshold_ms) \o "ms)",
          "info", 0, test_name)

PerformanceResult(duration_ms, issues) ==
    [analyzer_name |-> "performance", issues |-> issues,
     metadata |-> ("duration_ms" :> duration_ms)]

\* the slow check not chained to the very-slow check with elif
Performance_on_test_end_NoElif(self, test_name, passed, duration) ==
    LET duration_ms == duration * TickMs
        issues ==
            (IF duration_ms >= self._very_slow_threshold_ms
             THEN <<VerySlowIssue(self, test_name, duration_ms)>> ELSE <<>>)
            \o (IF duration_ms >= self._slow_threshold_ms
                THEN <<SlowIssue(self, test_name, duration_ms)>> ELSE <<>>)
    IN  [self EXCEPT
            !._test_durations = DictSet(@, test_name, duration_ms),
            !._test_results = IF issues /= <<>>
                              THEN DictSet(@, test_name, PerformanceResult(duration_ms, issues))
                              ELSE @]

\* PerformanceAnalyzer.on_test_start: pass
Performance_on_test_start(self, test_name) == self

\* PerformanceAnalyzer.on_test_end
Performance_on_test_end(self, test_name, passed, duration) ==
    LET duration_ms == duration * TickMs
        issues ==
            IF duration_ms >= self._very_slow_threshold_ms
            THEN <<VerySlowIssue(self, test_name, duration_ms)>>
            ELSE IF duration_ms >= self._slow_threshold_ms
            THEN <<SlowIssue(self, test_name, duration_ms)>>
            ELSE <<>>
    IN  [self EXCEPT
            !._test_durations = DictSet(@, test_name, duration_ms),
            !._test_results = IF issues /= <<>>
                              THEN DictSet(@, test_name, PerformanceResult(duration_ms, issues))
                              ELSE @]

\* PerformanceAnalyzer.get_results
Performance_get_results(self) == DictValues(self._test_results)

---------------------------------------------------------------------------
(* The Execution-Time Observer driven through its own methods.              *)

TestNames == {"test_a", "test_b"}

PerformanceOptions ==
    { EmptyMap,
      "slow_threshold_ms" :> 0,
      ("slow_threshold_ms" :> 1000) @@ ("very_slow_threshold_ms" :> 1500),
      ("slow_threshold_ms" :> 1500) @@ ("very_slow_threshold_ms" :> 1000) }

ObserverCall(op, test_name, passed, duration) ==
    [op |-> op, test_name |-> test_name, passed |-> passed, duration |-> duration]

PerformanceInit ==
    /\ ScoringIdle
    /\ AnalyzerIdle
    /\ PluginIdle
    /\ ConfigIdle
    /\ perf \in {PerformanceAnalyzer(opts) : opts \in PerformanceOptions}
    /\ iso = None
    /\ modules = EmptyMap
    /\ last_call = ObserverCall("__init__", None, FALSE, 0)

\* analyzer.on_test_start(test_name)
PerfTestStart(test_name) ==
    /\ perf' = Performance_on_test_start(perf, test_name)
    /\ last_call' = ObserverCall("on_test_start", test_name, FALSE, 0)
    /\ UNCHANGED <<iso, modules, scoringVars, analyzerVars, pluginVars, configVars>>

\* analyzer.on_test_end(test_name, passed, duration)
PerfTestEnd(test_name, passed, duration) ==
    /\ perf' = Performance_on_test_end(perf, test_name, passed, duration)
    /\ last_call' = ObserverCall("on_test_end", test_name, passed, duration)
    /\ UNCHANGED <<iso, modules, scoringVars, analyzerVars, pluginVars, configVars>>

PerformanceNext ==
    \/ \E n \in TestNames : PerfTestStart(n)
    \/ \E n \in TestNames, passed \in BOOLEAN, d \in 0..MaxDuration : PerfTestEnd(n, passed, d)

SpecPerformance == PerformanceInit /\ [][PerformanceNext]_vars

---------------------------------------------------------------------------
(* Properties of the Execution-Time Observer.                               *)

IssuesOfRule(res, rule) == SelectSeq(res.issues, LAMBDA i : i.rule = rule)

\* the step is an on_test_end(name, passed, duration) call
IsTestEnd == last_call'.op = "on_test_end"

SoleIssue(res, rule, severity, test_name) ==
    /\ Len(res.issues) = 1
    /\ res.issues[1].rule = rule
    /\ res.issues[1].severity = severity
    /\ res.issues[1].test_name = test_name

\* C14: every on_test_end(name, passed, duration) call, with d = duration *
\* 1000 ms, stores for name a result holding exactly one Warning
\* performance.very_slow issue when d >= the very-slow threshold, otherwise a
\* result holding exactly one Info performance.slow issue when d >= the slow
\* threshold, and otherwise stores nothing; no call yields both issues, the
\* results of other tests are left alone, and every result get_results
\* returns holds an issue.
C14_OneIssuePerSlowTest ==
    [][IsTestEnd =>
        LET name == last_call'.test_name
            d == last_call'.duration * TickMs
            stored == DictGet(perf'._test_results, name)
        IN  /\ d >= perf._very_slow_threshold_ms =>
                /\ DictHas(perf'._test_results, name)
                /\ SoleIssue(stored, "performance.very_slow", "warning", name)
                /\ stored.metadata["duration_ms"] = d
            /\ (d < perf._very_slow_threshold_ms /\ d >= perf._slow_threshold_ms) =>
                /\ DictHas(perf'._test_results, name)
                /\ SoleIssue(stored, "performance.slow", "info", name)
                /\ stored.metadata["duration_ms"] = d
            /\ (d < perf._very_slow_threshold_ms /\ d < perf._slow_threshold_ms) =>
                perf'._test_results = perf._test_results
            /\ \A other \in DictKeys(perf._test_results) \ {name} :
                /\ DictHas(perf'._test_results, other)
                /\ DictGet(perf'._test_results, other) = DictGet(perf._test_results, other)
            /\ DictKeys(perf'._test_results) \subseteq DictKeys(perf._test_results) \cup {name}
            /\ \A k \in 1..Len(Performance_get_results(perf')) :
                Performance_get_results(perf')[k].issues /= <<>>
    ]_vars

\* default thresholds: test_a ended after 2 s (very slow), test_b after 0.5 s
\* (slow), and get_results returns their two results in that order
C14_Witness ==
    /\ perf._slow_threshold_ms = 500 /\ perf._very_slow_threshold_ms = 2000
    /\ last_call = ObserverCall("on_test_end", "test_b", TRUE, 1)
    /\ Len(Performance_get_results(perf)) = 2
    /\ SoleIssue(Performance_get_results(perf)[1], "performance.very_slow", "warning", "test_a")
    /\ SoleIssue(Performance_get_results(perf)[2], "performance.slow", "info", "test_b")

---------------------------------------------------------------------------
(* More of the ast: assignment and control-flow statements, expressions     *)
(* with branches.  A Name or Attribute that is assigned to has ctx Store:   *)
(* val is 1 for Store and 0 for Load.                                       *)

NameStore(id) == Node("Name", id, 1, <<>>)
AttributeStore(value, attr) == Node("Attribute", attr, 1, <<value>>)
\* targets = value: val is the number of targets
Assign(targets, value) == Node("Assign", "", Len(targets), targets \o <<value>>)
AugAssign(target, op, value) == Node("AugAssign", op, 0, <<target, value>>)
Return(value) == Node("Return", "", 0, <<value>>)
For(target, iter, body) == Node("For", "", 0, <<target, iter>> \o body)
While(test, body) == Node("While", "", 0, <<test>> \o body)
\* val is the number of handlers; they follow the body
Try(body, handlers) == Node("Try", "", Len(handlers), body \o handlers)
ExceptHandler(body) == Node("ExceptHandler", "", 0, body)
IfExp(test, body, orelse) == Node("IfExp", "", 0, <<test, body, orelse>>)
\* for target in iter if ... if ...: val is len(ifs)
comprehension(target, iter, ifs) ==
    Node("comprehension", "", Len(ifs), <<target, iter>> \o ifs)
\* val is len(generators)
ListComp(elt, generators) == Node("ListComp", "", Len(generators), <<elt>> \o generators)
GeneratorExp(elt, generators) ==
    Node("GeneratorExp", "", Len(generators), <<elt>> \o generators)
Generators(node) == SubSeq(node.kids, Len(node.kids) - node.val + 1, Len(node.kids))

---------------------------------------------------------------------------
(* analyzers/complexity.py: ComplexityVisitor and ComplexityAnalyzer.       *)

\* ComplexityVisitor.__init__
ComplexityVisitor ==
    [statement_count |-> 0, max_depth |-> 0, cyclomatic_complexity |-> 1, _current_depth |-> 0]

_count_statement(v) == [v EXCEPT !.statement_count = @ + 1]
_enter_scope(v) ==
    [v EXCEPT !._current_depth = @ + 1, !.max_depth = Max(@, v._current_depth + 1)]
\* a visitor whose _exit_scope forgets the decrement
_exit_scope_NoDecrement(v) == v
_exit_scope(v) == [v EXCEPT !._current_depth = @ - 1]
AddComplexity(v, n) == [v EXCEPT !.cyclomatic_complexity = @ + n]

\* the node types whose visit method only counts a statement
CountedStatements ==
    {"Assign", "AnnAssign", "AugAssign", "Expr", "Assert", "Return", "Raise", "Pass",
     "Break", "Continue", "Import", "ImportFrom"}

\* for generator in node.generators: 1 + len(generator.ifs)
GeneratorComplexity(node) ==
    SumSeq([k \in 1..node.val |-> 1 + Generators(node)[k].val])

RECURSIVE CV_visit(_, _), CV_generic_visit(_, _), CV_visit_all(_, _)

\* visit_If: one for the if, one for each If that is directly in orelse
CV_visit_If(v, node) ==
    LET elifs == Len(SelectSeq(IfOrelse(node), LAMBDA child : child.type = "If"))
    IN  _exit_scope(CV_generic_visit(
            _enter_scope(AddComplexity(_count_statement(v), 1 + elifs)), node))

CV_visit(v, node) ==
    IF node.type \in CountedStatements
      THEN CV_generic_visit(_count_statement(v), node)
    ELSE IF node.type = "If" THEN CV_visit_If(v, node)
    ELSE IF node.type \in {"For", "While"}
      THEN _exit_scope(CV_generic_visit(
               _enter_scope(AddComplexity(_count_statement(v), 1)), node))
    ELSE IF node.type = "ExceptHandler"
      THEN _exit_scope(CV_generic_visit(_enter_scope(AddComplexity(v, 1)), node))
    ELSE IF node.type \in {"With", "Try"}
      THEN _exit_scope(CV_generic_visit(_enter_scope(_count_statement(v)), node))
    ELSE IF node.type = "BoolOp"
      THEN CV_generic_visit(AddComplexity(v, Len(node.kids) - 1), node)
    ELSE IF node.type = "IfExp"
      THEN CV_generic_visit(AddComplexity(v, 1), node)
    ELSE IF node.type \in {"ListComp", "DictComp", "SetComp"}
      THEN CV_generic_visit(
               AddComplexity(_count_statement(v), GeneratorComplexity(node)), node)
    ELSE IF node.type = "GeneratorExp"
      THEN CV_generic_visit(AddComplexity(v, GeneratorComplexity(node)), node)
    ELSE CV_generic_visit(v, node)

CV_generic_visit(v, node) == CV_visit_all(v, node.kids)

\* the children in order; w is the visitor after the first child
CV_visit_all(v, nodes) ==
    IF nodes = <<>> THEN v
    ELSE CHOOSE r \in {CV_visit_all(w, Tail(nodes)) : w \in {CV_visit(v, Head(nodes))}} : TRUE

\* ComplexityAnalyzer.__init__
ComplexityAnalyzer(opts) ==
    [_max_statements |-> OrElse(get_option(opts, "max_statements", 20), 20),
     _max_depth |-> OrElse(get_option(opts, "max_depth", 3), 3),
     _max_complexity |-> OrElse(get_option(opts, "max_complexity", 5), 5)]

TooManyStatements(self, t, v) ==
    IF v.statement_count > self._max_statements
    THEN <<Issue("complexity.too_many_statements",
                 "Test has " \o ToString(v.statement_count) \o " statements (maximum "
                     \o ToString(self._max_statements) \o ")",
                 "warning", t.line, t.name)>>
    ELSE <<>>

DeepNesting(self, t, v) ==
    IF v.max_depth > self._max_depth
    THEN <<Issue("complexity.deep_nesting",
                 "Test has nesting depth of " \o ToString(v.max_depth) \o " (maximum "
                     \o ToString(self._max_depth) \o ")",
                 "warning", t.line, t.name)>>
    ELSE <<>>

HighCyclomatic(self, t, v) ==
    IF v.cyclomatic_complexity > self._max_complexity
    THEN <<Issue("complexity.high_cyclomatic",
                 "Test has cyclomatic complexity of " \o ToString(v.cyclomatic_complexity)
                     \o " (maximum " \o ToString(self._max_complexity) \o ")",
                 "warning", t.line, t.name)>>
    ELSE <<>>

ComplexityMetadata(v) ==
    ("statement_count" :> v.statement_count) @@ ("max_depth" :> v.max_depth)
        @@ ("cyclomatic_complexity" :> v.cyclomatic_complexity)

\* the three checks chained with elif: only the first exceeded threshold reported
Complexity_analyze_ast_Elif(self, t, res) ==
    LET v == CV_visit(ComplexityVisitor, t.node)
        first == IF TooManyStatements(self, t, v) /= <<>> THEN TooManyStatements(self, t, v)
                 ELSE IF DeepNesting(self, t, v) /= <<>> THEN DeepNesting(self, t, v)
                 ELSE HighCyclomatic(self, t, v)
    IN  [res EXCEPT !.issues = @ \o first, !.metadata = ComplexityMetadata(v)]

\* ComplexityAnalyzer._analyze_ast
Complexity_analyze_ast(self, t, res) ==
    LET v == CV_visit(ComplexityVisitor, t.node)
    IN  [res EXCEPT !.issues = @ \o TooManyStatements(self, t, v) \o DeepNesting(self, t, v)
                                 \o HighCyclomatic(self, t, v),
                    !.metadata = ComplexityMetadata(v)]

\* StaticAnalyzer.analyze for the ComplexityAnalyzer
ComplexityAnalyzer_analyze(opts, t) ==
    Complexity_analyze_ast(ComplexityAnalyzer(opts), t, AnalyzerResult("complexity"))

---------------------------------------------------------------------------
(* A run of the Complexity analyzer over one test function.                 *)

ComplexityStatements ==
    { PassStmt,
      Assign(<<NameStore("x")>>, Num(1)),
      AssertStmt(Compare(x, "Eq", <<y>>), <<>>),
      AssertStmt(BoolOp("And", <<x, y, Name("z")>>), <<>>),
      If(x, <<PassStmt>>, <<>>),
      If(x, <<PassStmt>>, <<If(y, <<PassStmt>>, <<PassStmt>>)>>),
      For(NameStore("x"), y, <<If(x, <<PassStmt>>, <<>>)>>),
      While(x, <<PassStmt>>),
      WithStmt(<<f(<<x>>)>>,
               <<WithStmt(<<f(<<y>>)>>,
                          <<Try(<<PassStmt>>, <<ExceptHandler(<<PassStmt>>)>>)>>)>>),
      Try(<<ExprStmt(f(<<x>>))>>, <<ExceptHandler(<<PassStmt>>), ExceptHandler(<<PassStmt>>)>>),
      Assign(<<NameStore("x")>>,
             ListComp(y, <<comprehension(NameStore("y"), x, <<y, x>>)>>)),
      Assign(<<NameStore("x")>>, IfExp(x, y, Num(1))),
      ExprStmt(f(<<GeneratorExp(y, <<comprehension(NameStore("y"), x, <<>>)>>)>>)),
      Return(x) }

ComplexityOptions ==
    { EmptyMap,
      "max_statements" :> 1,
      "max_depth" :> 1,
      "max_complexity" :> 1,
      ("max_statements" :> 0) @@ ("max_depth" :> 0) @@ ("max_complexity" :> 0),
      ("max_statements" :> 1) @@ ("max_depth" :> 1) @@ ("max_complexity" :> 1),
      ("max_statements" :> 2) @@ ("max_depth" :> 2) @@ ("max_complexity" :> 3) }

ComplexityInit ==
    /\ ScoringIdle
    /\ RuntimeIdle
    /\ PluginIdle
    /\ ConfigIdle
    /\ test_info \in {TestItemInfo(b) : b \in Bodies(ComplexityStatements)}
    /\ an_options \in ComplexityOptions
    /\ an_result = AnalyzerResult("")
    /\ an_pc = "ready"
    /\ visitor = None
    /\ an_instance = None

\* result = ComplexityAnalyzer(config).analyze(test)
AnalyzeComplexity ==
    /\ an_pc = "ready"
    /\ an_result' = ComplexityAnalyzer_analyze(an_options, test_info)
    /\ an_pc' = "done"
    /\ UNCHANGED <<test_info, an_options, visitor, an_instance, scoringVars, runtimeVars, pluginVars, configVars>>

ComplexityNext == AnalyzeComplexity

SpecComplexity == ComplexityInit /\ [][ComplexityNext]_vars

---------------------------------------------------------------------------
(* Properties of the Complexity analyzer.                                   *)

\* the analyzer's limit for an option: the configured value, or the default
\* when the option is absent or 0
ComplexityLimit(option, default) ==
    IF option \in DOMAIN an_options /\ an_options[option] /= 0
    THEN an_options[option] ELSE default

\* how many of the three metrics are above their limits
ExceededThresholds ==
    (IF an_result.metadata["statement_count"] > ComplexityLimit("max_statements", 20)
     THEN 1 ELSE 0)
    + (IF an_result.metadata["max_depth"] > ComplexityLimit("max_depth", 3) THEN 1 ELSE 0)
    + (IF an_result.metadata["cyclomatic_complexity"] > ComplexityLimit("max_complexity", 5)
       THEN 1 ELSE 0)

\* C12: for every test and every setting of the three limits, the Complexity
\* analyzer emits complexity.too_many_statements exactly when statement_count
\* is above max_statements, complexity.deep_nesting exactly when max_depth is
\* above the depth limit and complexity.high_cyclomatic exactly when
\* cyclomatic_complexity is above the complexity limit, each at most once and
\* nothing else; so a test above exactly one limit gets exactly one issue, of
\* the matching rule.
C12_ComplexityChecksIndependent ==
    (Analyzed /\ an_result.analyzer_name = "complexity") =>
        LET md == an_result.metadata
            count(rule) == Len(IssuesWithRule(rule))
        IN  /\ count("complexity.too_many_statements")
                  = (IF md["statement_count"] > ComplexityLimit("max_statements", 20)
                     THEN 1 ELSE 0)
            /\ count("complexity.deep_nesting")
                  = (IF md["max_depth"] > ComplexityLimit("max_depth", 3) THEN 1 ELSE 0)
            /\ count("complexity.high_cyclomatic")
                  = (IF md["cyclomatic_complexity"] > ComplexityLimit("max_complexity", 5)
                     THEN 1 ELSE 0)
            /\ Len(an_result.issues) = ExceededThresholds
            /\ \A k \in 1..Len(an_result.issues) : an_result.issues[k].severity = "warning"

\* a test that is three levels deeper than the depth limit of 1 allows while
\* its statement count and cyclomatic complexity are within the default
\* limits: one issue, complexity.deep_nesting
C12_Witness ==
    /\ Analyzed /\ an_result.analyzer_name = "complexity"
    /\ an_options = ("max_depth" :> 1)
    /\ an_result.metadata["max_depth"] = 4
    /\ ExceededThresholds = 1
    /\ Len(an_result.issues) = 1
    /\ an_result.issues[1].rule = "complexity.deep_nesting"

---------------------------------------------------------------------------
(* analyzers/isolation.py: GlobalModificationVisitor and                    *)
(* IsolationStaticAnalyzer.                                                 *)

\* ast.Global with one name; ast.Subscript as an assignment target or a value
Global(name) == Node("Global", name, 0, <<>>)
SubscriptStore(value, slice) == Node("Subscript", "", 1, <<value, slice>>)
Subscript(value, slice) == Node("Subscript", "", 0, <<value, slice>>)
IsStore(node) == node.val = 1

\* name[0].isupper() and name[0].islower() for the names of the model's tests
UpperInitialNames == {"Counter", "Config", "E"}
LowerInitialNames ==
    {"self", "cls", "x", "y", "z", "f", "g", "h", "config", "counter", "pytest", "helper"}
\* the names of the model's tests that are keys of sys.modules
SysModuleNames == {"pytest"}

MUTATING_METHODS ==
    {"append", "extend", "insert", "remove", "pop", "clear", "add", "discard", "update",
     "intersection_update", "difference_update", "symmetric_difference_update",
     "setdefault", "popitem"}

\* GlobalModificationVisitor.__init__
GlobalModificationVisitor ==
    [global_writes |-> <<>>, global_declarations |-> <<>>,
     class_attr_modifications |-> <<>>, _in_function |-> FALSE]

\* only the name cls counts as a class reference
IsClassReference_ClsOnly(name) == name \in {"cls", "self.__class__"}

\* name in ("cls", "self.__class__") or name[0].isupper()
IsClassReference(name) ==
    name \in {"cls", "self.__class__"} \/ name \in UpperInitialNames

RECURSIVE GV_visit(_, _), GV_generic_visit(_, _), GV_visit_all(_, _)

GV_visit_Global(v, node) ==
    GV_generic_visit(
        [v EXCEPT !.global_declarations = Append(@, node.tag),
                  !.global_writes = Append(@, <<node.lineno, node.tag>>)],
        node)

GV_visit_Attribute(v, node) ==
    GV_generic_visit(
        IF /\ IsStore(node)
           /\ node.kids[1].type = "Name"
           /\ IsClassReference(node.kids[1].tag)
        THEN [v EXCEPT !.class_attr_modifications =
                 Append(@, <<node.lineno, node.kids[1].tag \o "." \o node.tag>>)]
        ELSE v,
        node)

GV_visit_Call(v, node) ==
    LET func == node.kids[1]
    IN  GV_generic_visit(
            IF /\ func.type = "Attribute"
               /\ func.tag \in MUTATING_METHODS
               /\ func.kids[1].type = "Attribute"
               /\ func.kids[1].kids[1].type = "Name"
               /\ IsClassReference(func.kids[1].kids[1].tag)
            THEN [v EXCEPT !.class_attr_modifications =
                     Append(@, <<node.lineno,
                                 func.kids[1].kids[1].tag \o "." \o func.kids[1].tag
                                     \o "." \o func.tag \o "()">>)]
            ELSE v,
            node)

GV_visit_Subscript(v, node) ==
    LET value == node.kids[1]
    IN  GV_generic_visit(
            IF /\ IsStore(node)
               /\ value.type = "Attribute"
               /\ value.kids[1].type = "Name"
               /\ (value.kids[1].tag \in SysModuleNames
                   \/ value.kids[1].tag \in LowerInitialNames)
            THEN [v EXCEPT !.class_attr_modifications =
                     Append(@, <<node.lineno,
                                 value.kids[1].tag \o "." \o value.tag \o "[...]">>)]
            ELSE v,
            node)

GV_visit(v, node) ==
    IF node.type = "Global" THEN GV_visit_Global(v, node)
    ELSE IF node.type = "Attribute" THEN GV_visit_Attribute(v, node)
    ELSE IF node.type = "Call" THEN GV_visit_Call(v, node)
    ELSE IF node.type = "Subscript" THEN GV_visit_Subscript(v, node)
    ELSE GV_generic_visit(v, node)

GV_generic_visit(v, node) == GV_visit_all(v, node.kids)

\* the children in order; w is the visitor after the first child
GV_visit_all(v, nodes) ==
    IF nodes = <<>> THEN v
    ELSE CHOOSE r \in {GV_visit_all(w, Tail(nodes)) : w \in {GV_visit(v, Head(nodes))}} : TRUE

\* IsolationStaticAnalyzer._analyze_ast
Isolation_analyze_ast(t, res) ==
    LET v == GV_visit(GlobalModificationVisitor, t.node)
        global_issues ==
            [k \in 1..Len(v.global_writes) |->
                Issue("isolation.global_modification",
                      "Test uses 'global " \o v.global_writes[k][2]
                          \o "' which modifies shared state",
                      "warning", v.global_writes[k][1], t.name)]
        class_issues ==
            [k \in 1..Len(v.class_attr_modifications) |->
                Issue("isolation.class_attr_modification",
                      "Test modifies class/module attribute: "
                          \o v.class_attr_modifications[k][2],
                      "warning", v.class_attr_modifications[k][1], t.name)]
    IN  [res EXCEPT !.issues = @ \o global_issues \o class_issues,
                    !.metadata = ("global_modifications" :> Len(v.global_writes))
                                 @@ ("class_attr_modifications"
                                        :> Len(v.class_attr_modifications))]

\* StaticAnalyzer.analyze for the IsolationStaticAnalyzer
IsolationStaticAnalyzer_analyze(t) == Isolation_analyze_ast(t, AnalyzerResult("isolation"))

---------------------------------------------------------------------------
(* A run of the static Isolation analyzer over one test function.           *)

SelfName == Name("self")
ClsName == Name("cls")
CounterName == Name("Counter")
AssignAttribute(base, attr, value) ==
    Assign(<<AttributeStore(base, attr)>>, value)

IsolationStatements ==
    { AssignAttribute(SelfName, "value", Num(1)),
      AssignAttribute(ClsName, "value", Num(1)),
      AssignAttribute(CounterName, "value", Num(1)),
      AssignAttribute(Name("_registry"), "value", Num(1)),
      AssignAttribute(Name("config"), "value", Num(1)),
      AssignAttribute(Attribute(SelfName, "__class__"), "value", Num(1)),
      AssignAttribute(Attribute(CounterName, "inner"), "value", Num(1)),
      Assign(<<AttributeStore(ClsName, "a"), AttributeStore(CounterName, "b")>>, Num(1)),
      AugAssign(AttributeStore(ClsName, "value"), "Add", Num(1)),
      Assign(<<NameStore("x")>>, Attribute(ClsName, "value")),
      AssertStmt(Compare(Attribute(CounterName, "value"), "Eq", <<Num(1)>>), <<>>),
      ExprStmt(Call(Attribute(Attribute(ClsName, "items"), "append"), <<Num(1)>>)),
      ExprStmt(Call(Attribute(Attribute(SelfName, "items"), "append"), <<Num(1)>>)),
      Assign(<<SubscriptStore(Attribute(Name("config"), "settings"), x)>>, Num(1)),
      Assign(<<SubscriptStore(Attribute(CounterName, "settings"), x)>>, Num(1)),
      Global("counter"),
      PassStmt }

IsolationInit ==
    /\ ScoringIdle
    /\ RuntimeIdle
    /\ PluginIdle
    /\ ConfigIdle
    /\ test_info \in {TestItemInfo(b) : b \in Bodies(IsolationStatements)}
    /\ an_options = EmptyMap
    /\ an_result = AnalyzerResult("")
    /\ an_pc = "ready"
    /\ visitor = None
    /\ an_instance = None

\* result = IsolationStaticAnalyzer(config).analyze(test)
AnalyzeIsolation ==
    /\ an_pc = "ready"
    /\ an_result' = IsolationStaticAnalyzer_analyze(test_info)
    /\ an_pc' = "done"
    /\ UNCHANGED <<test_info, an_options, visitor, an_instance, scoringVars, runtimeVars, pluginVars, configVars>>

IsolationNext == AnalyzeIsolation

SpecIsolation == IsolationInit /\ [][IsolationNext]_vars

---------------------------------------------------------------------------
(* Properties of the static Isolation analyzer.                             *)

\* the statements of the test that are  <base>.<attr> = <value>  with a plain name as base
IsAttributeAssignment(stmt) ==
    /\ stmt.type = "Assign"
    /\ Len(stmt.kids) = 2
    /\ stmt.kids[1].type = "Attribute"
    /\ IsStore(stmt.kids[1])
    /\ stmt.kids[1].kids[1].type = "Name"

AttributeAssignments ==
    {k \in 1..Len(test_info.node.kids) : IsAttributeAssignment(test_info.node.kids[k])}

\* the class_attr_modification issues reported at the line of a statement
ClassAttrIssuesAt(stmt) ==
    SelectSeq(an_result.issues,
              LAMBDA i : i.rule = "isolation.class_attr_modification" /\ i.line = stmt.lineno)

\* C13: an assignment self.<attr> = ... yields no isolation.class_attr_modification
\* issue; an assignment whose base is cls or a name with an uppercase initial
\* yields exactly one, a warning whose message names <base>.<attr>
C13_ClassAttributeAssignments ==
    an_pc = "done" =>
        \A k \in AttributeAssignments :
            LET stmt == test_info.node.kids[k]
                base == stmt.kids[1].kids[1].tag
                attr == stmt.kids[1].tag
                found == ClassAttrIssuesAt(stmt)
            IN  /\ base = "self" => found = <<>>
                /\ (base = "cls" \/ base \in UpperInitialNames) =>
                       found = << Issue("isolation.class_attr_modification",
                                        "Test modifies class/module attribute: "
                                            \o base \o "." \o attr,
                                        "warning", stmt.lineno, test_info.name) >>

\* a test that assigns through self and through a class name has been analysed
C13_Witness ==
    /\ an_pc = "done"
    /\ an_result.analyzer_name = "isolation"
    /\ \E j, k \in AttributeAssignments :
          /\ test_info.node.kids[j].kids[1].kids[1].tag = "self"
          /\ test_info.node.kids[k].kids[1].kids[1].tag = "Counter"
          /\ ClassAttrIssuesAt(test_info.node.kids[j]) = <<>>
          /\ Len(ClassAttrIssuesAt(test_info.node.kids[k])) = 1

---------------------------------------------------------------------------
(* analyzers/isolation.py: IsolationDynamicAnalyzer.                        *)

\* A module is the map from its attribute names to their values.  A value is
\* an int, an object of a type the snapshot ignores, or Absent for a name
\* that dir(module) does not list.
IntValue(n) == [type |-> "int", v |-> n]
ObjectValue == [type |-> "object", v |-> 0]
Absent == [type |-> "absent", v |-> 0]

\* isinstance(value, (int, float, str, bool, list, dict, set, tuple))
SimpleTypes == {"int", "float", "str", "bool", "list", "dict", "set", "tuple"}

\* dir(module) is sorted; name.startswith("_") for the names of the model
SortedAttrNames == <<"_hidden", "counter", "level">>
PrivateNames == {"_hidden"}

\* dir(module): the names the module has, in sorted order
dir(module) ==
    SelectSeq(SortedAttrNames,
              LAMBDA name : name \in DOMAIN module /\ module[name] /= Absent)

\* IsolationDynamicAnalyzer.__init__; _module_snapshots is only read by key
IsolationDynamicAnalyzer ==
    [_module_snapshots |-> EmptyMap,
     _test_modifications |-> <<>>,
     _current_test |-> None,
     _monitored_modules |-> {}]

\* IsolationDynamicAnalyzer.configure_monitoring
configure_monitoring(self, module_names) ==
    [self EXCEPT !._monitored_modules = module_names]

\* IsolationDynamicAnalyzer._snapshot_module: a dict in the order of dir()
_snapshot_module(sys_modules, module_name) ==
    IF module_name \notin DOMAIN sys_modules THEN <<>>
    ELSE LET module == sys_modules[module_name]
             names == SelectSeq(dir(module),
                                LAMBDA name : /\ name \notin PrivateNames
                                              /\ module[name].type \in SimpleTypes)
         IN  [k \in 1..Len(names) |-> <<names[k], module[names[k]]>>]

\* IsolationDynamicAnalyzer._compare_snapshots
_compare_snapshots(before, after) ==
    LET changed == SelectSeq(after,
                       LAMBDA e : \/ ~DictHas(before, e[1])
                                  \/ DictGet(before, e[1]) /= e[2])
        deleted == SelectSeq(before, LAMBDA e : ~DictHas(after, e[1]))
    IN  [k \in 1..Len(changed) |->
            IF ~DictHas(before, changed[k][1])
            THEN changed[k][1] \o " (added)"
            ELSE changed[k][1] \o " (modified)"]
        \o [k \in 1..Len(deleted) |-> deleted[k][1] \o " (deleted)"]

\* IsolationDynamicAnalyzer.on_test_start
Isolation_on_test_start(self, sys_modules, test_name) ==
    [self EXCEPT
        !._current_test = test_name,
        !._module_snapshots =
            [m \in self._monitored_modules |-> _snapshot_module(sys_modules, m)]]

\* self._module_snapshots.get(module_name, {})
SnapshotBefore(self, module_name) ==
    IF module_name \in DOMAIN self._module_snapshots
    THEN self._module_snapshots[module_name]
    ELSE <<>>

\* the modifications of one module, each prefixed with the module's name
ModuleModifications(self, sys_modules, module_name) ==
    LET module_mods == _compare_snapshots(SnapshotBefore(self, module_name),
                                          _snapshot_module(sys_modules, module_name))
    IN  [k \in 1..Len(module_mods) |-> module_name \o "." \o module_mods[k]]

RECURSIVE Modifications(_, _, _)
\* the loop of on_test_end over the monitored modules, taken in a given order
Modifications(self, sys_modules, order) ==
    IF order = <<>> THEN <<>>
    ELSE ModuleModifications(self, sys_modules, Head(order))
         \o Modifications(self, sys_modules, Tail(order))

\* the orders in which a set of module names can be iterated
IterationOrders(names) ==
    {order \in [1..Cardinality(names) -> names] :
        \A j, k \in 1..Cardinality(names) : j /= k => order[j] /= order[k]}

\* IsolationDynamicAnalyzer.on_test_end, the monitored set iterated in order
Isolation_on_test_end(self, sys_modules, test_name, passed, duration, order) ==
    LET modifications == Modifications(self, sys_modules, order)
    IN  [self EXCEPT
            !._test_modifications =
                IF modifications /= <<>> THEN DictSet(@, test_name, modifications) ELSE @,
            !._current_test = None]

RuntimeModificationIssue(test_name, mod) ==
    Issue("isolation.runtime_modification", "Test modified shared state: " \o mod,
          "warning", 0, test_name)

\* IsolationDynamicAnalyzer.get_results
Isolation_get_results(self) ==
    [k \in 1..Len(self._test_modifications) |->
        LET test_name == self._test_modifications[k][1]
            modifications == self._test_modifications[k][2]
        IN  [analyzer_name |-> "isolation_runtime",
             issues |-> [j \in 1..Len(modifications) |->
                            RuntimeModificationIssue(test_name, modifications[j])],
             metadata |-> ("modifications" :> modifications)]]

---------------------------------------------------------------------------
(* The Runtime State-Mutation Observer driven through its own methods,      *)
(* start and end strictly alternating, while the code under test rebinds    *)
(* and deletes module attributes.                                           *)

\* sys.modules before the first test: two loaded modules
LoadedModules ==
    ("app" :> ("_hidden" :> IntValue(0) @@ "counter" :> IntValue(0)))
    @@ ("conf" :> ("level" :> IntValue(0)))

\* the values the code under test gives to each attribute
AttrValues(name) ==
    IF name = "counter" THEN {Absent, IntValue(0), IntValue(1), ObjectValue}
    ELSE {IntValue(0), IntValue(1)}

\* the module lists given to configure_monitoring
MonitoredChoices == {{"app", "conf"}, {"app", "missing"}}

IsolationRuntimeInit ==
    /\ ScoringIdle
    /\ AnalyzerIdle
    /\ PluginIdle
    /\ ConfigIdle
    /\ perf = None
    /\ modules = LoadedModules
    /\ iso \in {configure_monitoring(IsolationDynamicAnalyzer, names) :
                   names \in MonitoredChoices}
    /\ last_call = ObserverCall("__init__", None, FALSE, 0)

\* setattr(module, name, value) or delattr(module, name) by the running code
SetAttr(module_name, name, value) ==
    /\ modules[module_name][name] /= value
    /\ modules' = [modules EXCEPT ![module_name][name] = value]
    /\ UNCHANGED <<perf, iso, last_call, scoringVars, analyzerVars, pluginVars, configVars>>

IsoTestStart(test_name) ==
    /\ iso._current_test = None
    /\ iso' = Isolation_on_test_start(iso, modules, test_name)
    /\ last_call' = ObserverCall("on_test_start", test_name, FALSE, 0)
    /\ UNCHANGED <<perf, modules, scoringVars, analyzerVars, pluginVars, configVars>>

IsoTestEnd(test_name, passed, order) ==
    /\ iso._current_test = test_name
    /\ iso' = Isolation_on_test_end(iso, modules, test_name, passed, 0, order)
    /\ last_call' = ObserverCall("on_test_end", test_name, passed, 0)
    /\ UNCHANGED <<perf, modules, scoringVars, analyzerVars, pluginVars, configVars>>

IsolationRuntimeNext ==
    \/ \E module_name \in DOMAIN modules :
          \E name \in DOMAIN modules[module_name] :
             \E value \in AttrValues(name) : SetAttr(module_name, name, value)
    \/ \E test_name \in TestNames : IsoTestStart(test_name)
    \/ \E test_name \in TestNames, passed \in BOOLEAN :
          \E order \in IterationOrders(iso._monitored_modules) :
             IsoTestEnd(test_name, passed, order)

SpecIsolationRuntime == IsolationRuntimeInit /\ [][IsolationRuntimeNext]_vars

---------------------------------------------------------------------------
(* Properties of the Runtime State-Mutation Observer.                       *)

\* a step that is a call of on_test_end for the running test
IsIsoTestEnd == iso._current_test /= None /\ iso'._current_test = None

\* the value a snapshot holds for a name, Absent when it holds none
SnapshotValue(snapshot, name) ==
    IF DictHas(snapshot, name) THEN DictGet(snapshot, name) ELSE Absent

\* the attributes of monitored modules whose value in the running test's
\* start snapshot differs from the one in its end snapshot
ChangedAttributes ==
    {c \in iso._monitored_modules \X {SortedAttrNames[k] : k \in 1..Len(SortedAttrNames)} :
        SnapshotValue(SnapshotBefore(iso, c[1]), c[2])
            /= SnapshotValue(_snapshot_module(modules, c[1]), c[2])}

\* get_results after the step is get_results before it plus one result for
\* the test that ended, with one runtime_modification issue per changed attribute
AddsOneResult ==
    LET before == Isolation_get_results(iso)
        after == Isolation_get_results(iso')
        added == after[Len(after)]
    IN  /\ Len(after) = Len(before) + 1
        /\ SubSeq(after, 1, Len(before)) = before
        /\ added.analyzer_name = "isolation_runtime"
        /\ Len(added.issues) = Cardinality(ChangedAttributes)
        /\ \A k \in 1..Len(added.issues) :
              /\ added.issues[k].rule = "isolation.runtime_modification"
              /\ added.issues[k].severity = "warning"
              /\ added.issues[k].test_name = iso._current_test
        /\ \A j, k \in 1..Len(added.issues) :
              j /= k => added.issues[j].message /= added.issues[k].message

\* C15: the results start empty, every test that ends with a changed
\* attribute adds exactly one AnalyzerResult holding one
\* isolation.runtime_modification issue per changed attribute, and a test
\* that ends with nothing changed leaves the results as they were; so
\* get_results holds exactly one result per test during which something changed
C15_OneResultPerChangedTest ==
    [][IsIsoTestEnd =>
          IF ChangedAttributes = {}
          THEN Isolation_get_results(iso') = Isolation_get_results(iso)
          ELSE AddsOneResult]_vars

\* the same for a test whose name no earlier test with a change had
FreshNameAddsOneResult ==
    [][(IsIsoTestEnd /\ ~DictHas(iso._test_modifications, iso._current_test)) =>
          IF ChangedAttributes = {}
          THEN Isolation_get_results(iso') = Isolation_get_results(iso)
          ELSE AddsOneResult]_vars

\* two tests have changed attributes and get_results holds a result for each
TwoTestsReported ==
    /\ Len(Isolation_get_results(iso)) = 2
    /\ Len(Isolation_get_results(iso)[1].issues) = 2
    /\ iso._current_test = None

---------------------------------------------------------------------------
(* scoring.py: ScoreBreakdown.to_dict.                                      *)

\* the weighted score written under the key "weight"
to_dict_WeightedAsWeight(self) ==
    [total_score |-> self.total_score,
     grade |-> self.grade,
     total_tests |-> self.total_tests,
     total_issues |-> self.total_issues,
     error_count |-> self.error_count,
     warning_count |-> self.warning_count,
     info_count |-> self.info_count,
     categories |-> [k \in 1..Len(self.categories) |->
                        [name |-> self.categories[k].name,
                         weight |-> self.categories[k].weighted_score,
                         raw_score |-> self.categories[k].raw_score,
                         weighted_score |-> self.categories[k].weighted_score,
                         issue_count |-> self.categories[k].issue_count]],
     penalties |-> [k \in 1..Len(self.penalties) |->
                       [reason |-> self.penalties[k][1], amount |-> self.penalties[k][2]]]]

\* ScoreBreakdown.to_dict: a dict with string keys, here a record
to_dict(self) ==
    [total_score |-> self.total_score,
     grade |-> self.grade,
     total_tests |-> self.total_tests,
     total_issues |-> self.total_issues,
     error_count |-> self.error_count,
     warning_count |-> self.warning_count,
     info_count |-> self.info_count,
     categories |-> [k \in 1..Len(self.categories) |->
                        [name |-> self.categories[k].name,
                         weight |-> self.categories[k].weight,
                         raw_score |-> self.categories[k].raw_score,
                         weighted_score |-> self.categories[k].weighted_score,
                         issue_count |-> self.categories[k].issue_count]],
     penalties |-> [k \in 1..Len(self.penalties) |->
                       [reason |-> self.penalties[k][1], amount |-> self.penalties[k][2]]]]

\* C16: what is read back from to_dict -- d["total_score"], d["grade"] and,
\* for each entry of d["categories"] in order, its "name" and "weight" --
\* equals the breakdown's total_score, grade and category names and weights;
\* a breakdown scored with at least one test has the five categories
C16_ToDictRoundTrip ==
    Scored =>
        LET d == to_dict(breakdown)
        IN  /\ d.total_score = breakdown.total_score
            /\ d.grade = breakdown.grade
            /\ [k \in 1..Len(d.categories) |-> <<d.categories[k].name, d.categories[k].weight>>]
                  = [k \in 1..Len(breakdown.categories) |->
                        <<breakdown.categories[k].name, breakdown.categories[k].weight>>]
            /\ breakdown.total_tests >= 1 =>
                  [k \in 1..Len(d.categories) |-> <<d.categories[k].name, d.categories[k].weight>>]
                     = [k \in 1..Len(CategoryNames) |->
                           <<CategoryNames[k], CATEGORY_WEIGHTS[CategoryNames[k]]>>]

\* a scored breakdown with five categories, a penalty and a total below 100
C16_Witness ==
    /\ Scored
    /\ breakdown.total_tests >= 1
    /\ Len(to_dict(breakdown).categories) = 5
    /\ to_dict(breakdown).penalties /= <<>>
    /\ breakdown.total_score < Pts(100)
    /\ breakdown.grade /= "A"

---------------------------------------------------------------------------
(* config.py: AnalyzerConfig, ReviewConfig.                                 *)

\* The values a TOML document holds, tagged with their Python type.  A dict
\* is the sequence of its (key, value) pairs in insertion order.
Bool(b) == [kind |-> "bool", v |-> b]
Int_(n) == [kind |-> "int", v |-> n]
List(items) == [kind |-> "list", v |-> items]
Table(items) == [kind |-> "dict", v |-> items]

\* bool(value)
Truthy(value) ==
    IF value.kind = "bool" THEN value.v
    ELSE IF value.kind = "int" THEN value.v /= 0
    ELSE value.v /= <<>>

\* AnalyzerConfig(enabled, options)
AnalyzerConfig(enabled, options) == [enabled |-> enabled, options |-> options]

\* ReviewConfig(): the all-defaults configuration
ReviewConfig ==
    [enabled |-> Bool(TRUE), strict |-> Bool(FALSE), min_score |-> Int_(0),
     analyzers |-> <<>>, ignore_paths |-> List(<<>>), ignore_rules |-> List(<<>>)]

\* the outcome of a call: a returned value or a raised exception
Returned(value) == [status |-> "returned", value |-> value, exception |-> None]
Raised(exception) == [status |-> "raised", value |-> None, exception |-> exception]
Pending == [status |-> "pending", value |-> None, exception |-> None]

\* d.get(key, default) on a value that may not be a dict
Get(d, key, default) ==
    IF d.kind /= "dict" THEN Raised("AttributeError")
    ELSE IF DictHas(d.v, key) THEN Returned(DictGet(d.v, key))
    ELSE Returned(default)

\* the loop of from_dict over analyzers_data.items()
AnalyzersOf(analyzers_data) ==
    [k \in 1..Len(analyzers_data) |->
        LET name == analyzers_data[k][1]
            analyzer_data == analyzers_data[k][2]
        IN  IF analyzer_data.kind = "dict"
            THEN <<name,
                   AnalyzerConfig(IF DictHas(analyzer_data.v, "enabled")
                                  THEN DictGet(analyzer_data.v, "enabled")
                                  ELSE Bool(TRUE),
                                  DictDel(analyzer_data.v, "enabled"))>>
            ELSE <<name, AnalyzerConfig(Bool(Truthy(analyzer_data)), <<>>)>>]

\* ReviewConfig.from_dict
from_dict(data) ==
    LET analyzers_data == Get(data, "analyzers", Table(<<>>))
        ignore_config == Get(data, "ignore", Table(<<>>))
    IN  IF analyzers_data.status = "raised" THEN analyzers_data
        ELSE IF analyzers_data.value.kind /= "dict" THEN Raised("AttributeError")
        ELSE IF ignore_config.value.kind /= "dict" THEN Raised("AttributeError")
        ELSE Returned(
                [enabled |-> Get(data, "enabled", Bool(TRUE)).value,
                 strict |-> Get(data, "strict", Bool(FALSE)).value,
                 min_score |-> Get(data, "min_score", Int_(0)).value,
                 analyzers |-> AnalyzersOf(analyzers_data.value.v),
                 ignore_paths |-> Get(ignore_config.value, "paths", List(<<>>)).value,
                 ignore_rules |-> Get(ignore_config.value, "rules", List(<<>>)).value])

\* A file: whether the path exists, whether its bytes are a TOML document,
\* and the document tomllib.load returns for them.
File(exists, valid, data) == [exists |-> exists, valid |-> valid, data |-> data]
MissingFile == File(FALSE, FALSE, Table(<<>>))
MalformedFile == File(TRUE, FALSE, Table(<<>>))

\* tomllib.load(f)
tomllib_load(file) ==
    IF file.valid THEN Returned(file.data) ELSE Raised("TOMLDecodeError")

\* ReviewConfig.from_pyproject(path), path naming the file
from_pyproject(file) ==
    IF ~file.exists THEN Returned(ReviewConfig)
    ELSE LET data == tomllib_load(file)
         IN  IF data.status = "raised" THEN data
             ELSE LET tool == Get(data.value, "tool", Table(<<>>))
                  IN  IF tool.status = "raised" THEN tool
                      ELSE LET tool_config == Get(tool.value, "pytest-review", Table(<<>>))
                           IN  IF tool_config.status = "raised" THEN tool_config
                               ELSE from_dict(tool_config.value)

---------------------------------------------------------------------------
(* Loading the configuration from a pyproject.toml.                         *)

\* no entry, or the entry key = value for one of the values
OptionalEntry(key, values) == {<<>>} \cup {<< <<key, value>> >> : value \in values}

\* the [tool.pytest-review] tables of the model's files
ReviewTables ==
    { enabled \o strict \o min_score \o analyzers \o ignore :
        enabled \in OptionalEntry("enabled", {Bool(TRUE), Bool(FALSE)}),
        strict \in OptionalEntry("strict", {Bool(TRUE)}),
        min_score \in OptionalEntry("min_score", {Int_(80)}),
        analyzers \in OptionalEntry("analyzers",
            { Table(<< <<"assertions", Table(<< <<"enabled", Bool(FALSE)>>,
                                                <<"min_assertions", Int_(2)>> >>)>> >>),
              Table(<< <<"naming", Bool(FALSE)>>, <<"smells", Table(<<>>)>> >>),
              Int_(1) }),
        ignore \in OptionalEntry("ignore",
            { Table(<< <<"rules", List(<<"smells.magic_number">>)>> >>),
              Bool(TRUE) }) }

ConfigFiles ==
    {MissingFile, MalformedFile}
    \cup {File(TRUE, TRUE, Table(<< <<"tool", Table(<< <<"pytest-review", Table(t)>> >>)>> >>)) :
             t \in ReviewTables}
    \cup {File(TRUE, TRUE, Table(doc)) :
             doc \in { <<>>,
                       << <<"project", Table(<<>>)>> >>,
                       << <<"tool", Table(<<>>)>> >>,
                       << <<"tool", Int_(1)>> >>,
                       << <<"tool", Table(<< <<"pytest-review", Int_(1)>> >>)>> >> }}

ConfigInit ==
    /\ ScoringIdle
    /\ AnalyzerIdle
    /\ RuntimeIdle
    /\ PluginIdle
    /\ config_file \in ConfigFiles
    /\ config_data = None
    /\ review_config = Pending

\* review_config = ReviewConfig.from_pyproject(path)
LoadConfig ==
    /\ review_config.status = "pending"
    /\ review_config' = from_pyproject(config_file)
    /\ UNCHANGED <<config_file, config_data, scoringVars, analyzerVars, runtimeVars, pluginVars>>

ConfigNext == LoadConfig

SpecConfig == ConfigInit /\ [][ConfigNext]_vars

---------------------------------------------------------------------------
(* Properties of configuration loading.                                     *)

\* C19: from_pyproject returns the all-defaults configuration, and does not
\* raise, when the file is missing and when it exists but is not valid TOML
C19_DefaultsWhenMissingOrMalformed ==
    (review_config.status /= "pending" /\ (~config_file.exists \/ ~config_file.valid))
        => (review_config.status = "returned" /\ review_config.value = ReviewConfig)

\* the part that holds: a missing file gives the defaults
DefaultsWhenMissing ==
    (review_config.status /= "pending" /\ ~config_file.exists)
        => (review_config.status = "returned" /\ review_config.value = ReviewConfig)

---------------------------------------------------------------------------
(* plugin.py: ReviewPlugin and the pytest hooks.                            *)

\* The analyzers register_default_analyzers builds, in its order.  The Naming
\* and Anti-Pattern analyzers are not part of this model: its runs select
\* analyzers with --review-only among the others.
StaticAnalyzerOrder == <<"assertions", "complexity", "isolation", "smells">>
DynamicAnalyzerOrder == <<"performance">>

\* {name.strip() for name in only.split(",")}: only is held as its parts
Allowed(only) == {only[k] : k \in 1..Len(only)}

\* the loops of register_default_analyzers: the analyzers of a list that
\* pass the --review-only filter (every analyzer is enabled by default)
Registered(order, only) ==
    SelectSeq(order, LAMBDA name : only = <<>> \/ name \in Allowed(only))

\* ReviewPlugin.__init__ followed, when --review is given, by
\* register_default_analyzers; options are the command-line options
ReviewPlugin(options) ==
    [pytest_config |-> options,
     _static_analyzers |->
        IF options.review THEN Registered(StaticAnalyzerOrder, options.review_only) ELSE <<>>,
     _dynamic_analyzers |->
        IF options.review THEN Registered(DynamicAnalyzerOrder, options.review_only) ELSE <<>>,
     _results |-> <<>>,
     _test_infos |-> <<>>,
     _enabled |-> options.review,
     _test_start_times |-> <<>>]

\* ReviewPlugin.collect_test_info: the function of the item's name in its file
collect_test_info(item) ==
    [name |-> item.name, line |-> item.node.lineno, node |-> item.node]

\* the body of pytest_collection_modifyitems for an enabled plugin
CollectedTestInfos(items) ==
    LET reviewed == SelectSeq(items, LAMBDA item : ~item.review_skip)
    IN  [k \in 1..Len(reviewed) |-> collect_test_info(reviewed[k])]

\* analyzer.analyze(test_info), every analyzer with its default options
Analyze(name, t) ==
    IF name = "assertions" THEN AssertionsAnalyzer_analyze(EmptyMap, t)
    ELSE IF name = "complexity" THEN ComplexityAnalyzer_analyze(EmptyMap, t)
    ELSE IF name = "isolation" THEN IsolationStaticAnalyzer_analyze(t)
    ELSE SmellsAnalyzer_analyze(EmptyMap, t)

\* the (analyzer, test) pairs in the order run_static_analysis takes them
RECURSIVE AnalysisPairs(_, _)
AnalysisPairs(analyzers, test_infos) ==
    IF analyzers = <<>> THEN <<>>
    ELSE [k \in 1..Len(test_infos) |-> <<Head(analyzers), test_infos[k]>>]
         \o AnalysisPairs(Tail(analyzers), test_infos)

\* the results with issues, in order
WithIssues(rs) == SelectSeq(rs, LAMBDA r : r.issues /= <<>>)

\* no analyze call raises
NoRaise == <<None, None>>

\* the first pair whose analyze call raises, 0 if none does; raises is
\* NoRaise or the (analyzer name, test name) of the call that raises
FirstRaising(pairs, raises) ==
    LET hits == {k \in 1..Len(pairs) : <<pairs[k][1], pairs[k][2].name>> = raises}
    IN  IF hits = {} THEN 0 ELSE CHOOSE k \in hits : \A j \in hits : k <= j

\* ReviewPlugin.run_static_analysis: the plugin afterwards, and whether an
\* analyze call raised and the exception left the method
run_static_analysis(self, raises) ==
    LET pairs == AnalysisPairs(self._static_analyzers, self._test_infos)
        stop == FirstRaising(pairs, raises)
        done == IF stop = 0 THEN pairs ELSE SubSeq(pairs, 1, stop - 1)
    IN  [plugin |-> [self EXCEPT !._results =
                        @ \o WithIssues([k \in 1..Len(done) |-> Analyze(done[k][1], done[k][2])])],
         raised |-> stop /= 0]

\* ReviewPlugin.run_analysis; performance is the PerformanceAnalyzer instance
run_analysis(self, performance, raises) ==
    LET static == run_static_analysis(self, raises)
    IN  IF static.raised THEN static
        ELSE [plugin |-> [static.plugin EXCEPT !._results =
                            @ \o (IF "performance" \in Allowed(self._dynamic_analyzers)
                                  THEN WithIssues(Performance_get_results(performance))
                                  ELSE <<>>)],
              raised |-> FALSE]

\* ReviewPlugin.on_test_start: the start time recorded under the node id
Plugin_on_test_start(self, node_id, now) ==
    [self EXCEPT !._test_start_times = DictSet(@, node_id, now)]

\* the duration on_test_end computes: now minus the popped start time
DurationSince(self, node_id, now) ==
    IF DictHas(self._test_start_times, node_id)
    THEN now - DictGet(self._test_start_times, node_id)
    ELSE 0

\* ReviewPlugin.on_test_end, as far as the plugin's own fields go
Plugin_on_test_end(self, node_id) ==
    [self EXCEPT !._test_start_times = DictDel(@, node_id)]

\* ReviewPlugin.has_errors
has_errors(self) ==
    \E k \in 1..Len(self._results) :
        \E j \in 1..Len(self._results[k].issues) :
            self._results[k].issues[j].severity = "error"

\* ReviewPlugin.calculate_score
Plugin_calculate_score(self) ==
    IF self._test_infos = <<>> THEN Pts(100)
    ELSE calculate_score(self._results, self._results, Len(self._test_infos)).total_score

\* config._store.get(pytest.StashKey[pytest.Session](), None): a key made
\* on the spot is the key of no entry
StashGetFreshKey(stash, default) == default

---------------------------------------------------------------------------
(* A pytest session with the plugin: collection, the run of each item       *)
(* (protocol, setup, call, teardown), session finish, terminal summary.     *)

MaxItems == 2       \* items in a session

\* an item: a test function alone in its file, with or without the
\* review_skip marker
Item(name, body, review_skip) ==
    [nodeid |-> name \o ".py::" \o name,
     name |-> name,
     node |-> Stamp(FunctionDef(name, body, <<>>), 1),
     review_skip |-> review_skip]

Messaged(test) == AssertStmt(test, <<Constant("str", 3)>>)

TestCatalogue ==
    { Item("test_roulette",
           << AssertStmt(Compare(Num(1), "Eq", <<Num(1)>>), <<>>),
              AssertStmt(Compare(Num(2), "Eq", <<Num(2)>>), <<>>),
              AssertStmt(Compare(Num(3), "Eq", <<Num(3)>>), <<>>) >>, FALSE),
      Item("test_empty", <<PassStmt>>, FALSE),
      Item("test_clean", <<Messaged(Compare(f(<<x>>), "Eq", <<y>>))>>, FALSE),
      Item("test_cls",
           << AssignAttribute(ClsName, "value", Num(1)),
              Messaged(Compare(Attribute(ClsName, "value"), "Eq", <<Num(1)>>)) >>, FALSE),
      Item("test_legacy", <<PassStmt>>, TRUE) }

\* the sessions' item lists: distinct items of the catalogue
ItemLists ==
    UNION { {items \in [1..n -> TestCatalogue] :
                \A j, k \in 1..n : j /= k => items[j] /= items[k]} : n \in 1..MaxItems }

\* the command lines: --review, --review-strict, --review-min-score N,
\* --review-only a,b,...
CommandLines ==
    { [review |-> review, review_strict |-> strict, review_min_score |-> min_score,
       review_only |-> only] :
        review \in BOOLEAN, strict \in BOOLEAN, min_score \in {0, 90},
        only \in { <<"assertions", "complexity", "isolation", "smells", "performance">>,
                   <<"assertions">>,
                   <<"smells", "performance">> } }

\* the analyze calls that raise in a session: none, or one (analyzer, test)
RaisingCalls == {NoRaise, <<"assertions", "test_cls">>, <<"smells", "test_roulette">>}

\* pytest.ExitCode
ExitCode_OK == 0
ExitCode_TESTS_FAILED == 1

\* the session after pytest_configure and collection, before
\* pytest_collection_modifyitems
Session(items, raises) ==
    [items |-> items, index |-> 1, phase |-> "collected", clock |-> 0,
     testsfailed |-> FALSE, exitstatus |-> ExitCode_OK, stash |-> <<>>,
     raises |-> raises, score |-> Pts(100), output |-> <<>>]

PluginInit ==
    /\ ScoringIdle
    /\ AnalyzerIdle
    /\ ConfigIdle
    /\ iso = None
    /\ modules = EmptyMap
    /\ last_call = None
    /\ perf = PerformanceAnalyzer(EmptyMap)
    /\ plugin \in {ReviewPlugin(options) : options \in CommandLines}
    /\ session \in {Session(items, raises) : items \in ItemLists, raises \in RaisingCalls}

pluginFrame == <<scoringVars, analyzerVars, configVars, iso, modules, last_call>>

CurrentItem == session.items[session.index]

pytest_collection_modifyitems ==
    /\ session.phase = "collected"
    /\ plugin' = IF plugin._enabled
                 THEN [plugin EXCEPT !._test_infos = @ \o CollectedTestInfos(session.items)]
                 ELSE plugin
    /\ session' = [session EXCEPT !.phase = "protocol"]
    /\ UNCHANGED <<perf, pluginFrame>>

\* the part of pytest_runtest_protocol before the yield
pytest_runtest_protocol ==
    /\ session.phase = "protocol"
    /\ session.index <= Len(session.items)
    /\ plugin' = IF plugin._enabled
                 THEN Plugin_on_test_start(plugin, CurrentItem.nodeid, session.clock)
                 ELSE plugin
    /\ perf' = IF plugin._enabled /\ "performance" \in Allowed(plugin._dynamic_analyzers)
               THEN Performance_on_test_start(perf, CurrentItem.name)
               ELSE perf
    /\ session' = [session EXCEPT !.phase = "setup"]
    /\ UNCHANGED pluginFrame

\* pytest_runtest_makereport for the setup phase, which passed, skipped the
\* test or failed: the plugin does nothing
MakeReportSetup(outcome) ==
    /\ session.phase = "setup"
    /\ session' = [session EXCEPT
                      !.phase = IF outcome = "passed" THEN "call" ELSE "teardown",
                      !.testsfailed = @ \/ outcome = "failed"]
    /\ UNCHANGED <<plugin, perf, pluginFrame>>

\* the test body ran for elapsed ticks; pytest_runtest_makereport for the
\* call phase
MakeReportCall(passed, elapsed) ==
    /\ session.phase = "call"
    /\ LET now == session.clock + elapsed
           duration == DurationSince(plugin, CurrentItem.nodeid, now)
       IN  /\ plugin' = IF plugin._enabled
                        THEN Plugin_on_test_end(plugin, CurrentItem.nodeid)
                        ELSE plugin
           /\ perf' = IF plugin._enabled /\ "performance" \in Allowed(plugin._dynamic_analyzers)
                      THEN Performance_on_test_end(perf, CurrentItem.name, passed, duration)
                      ELSE perf
           /\ session' = [session EXCEPT !.phase = "teardown", !.clock = now,
                                         !.testsfailed = @ \/ ~passed]
    /\ UNCHANGED pluginFrame

\* pytest_runtest_makereport for the teardown phase: the plugin does
\* nothing, and the session goes on to the next item
MakeReportTeardown ==
    /\ session.phase = "teardown"
    /\ session' = [session EXCEPT !.phase = "protocol", !.index = @ + 1]
    /\ UNCHANGED <<plugin, perf, pluginFrame>>

\* pytest sets the exit status from the test outcomes and calls
\* pytest_sessionfinish; an exception leaving run_analysis ends the run
pytest_sessionfinish ==
    /\ session.phase = "protocol"
    /\ session.index > Len(session.items)
    /\ LET exitstatus == IF session.testsfailed THEN ExitCode_TESTS_FAILED ELSE ExitCode_OK
           run == run_analysis(plugin, perf, session.raises)
       IN  IF ~plugin._enabled
           THEN /\ plugin' = plugin
                /\ session' = [session EXCEPT !.phase = "summary", !.exitstatus = exitstatus]
           ELSE /\ plugin' = run.plugin
                /\ session' = [session EXCEPT
                                  !.phase = IF run.raised THEN "crashed" ELSE "summary",
                                  !.exitstatus = exitstatus]
    /\ UNCHANGED <<perf, pluginFrame>>

\* pytest_terminal_summary: the report, then the strict and min-score handling
pytest_terminal_summary ==
    /\ session.phase = "summary"
    /\ IF ~plugin._enabled
       THEN session' = [session EXCEPT !.phase = "done"]
       ELSE LET score == Plugin_calculate_score(plugin)
                strict == plugin.pytest_config.review_strict
                min_score == plugin.pytest_config.review_min_score
                strict_failed == strict /\ has_errors(plugin)
                found == StashGetFreshKey(session.stash, None)
                below == score < Pts(min_score)
            IN  session' =
                  [session EXCEPT
                      !.phase = "done",
                      !.score = score,
                      !.exitstatus = IF strict_failed /\ found /= None
                                     THEN ExitCode_TESTS_FAILED ELSE @,
                      !.output = (IF strict_failed
                                  THEN <<"FAILED: Quality errors found (--review-strict enabled)">>
                                  ELSE <<>>)
                                 \o (IF below
                                     THEN <<"FAILED: Quality score below minimum">>
                                     ELSE <<>>)]
    /\ UNCHANGED <<plugin, perf, pluginFrame>>

PluginNext ==
    \/ pytest_collection_modifyitems
    \/ pytest_runtest_protocol
    \/ \E outcome \in {"passed", "skipped", "failed"} : MakeReportSetup(outcome)
    \/ \E passed \in BOOLEAN, elapsed \in {0, MaxDuration} : MakeReportCall(passed, elapsed)
    \/ MakeReportTeardown
    \/ pytest_sessionfinish
    \/ pytest_terminal_summary

SpecPlugin == PluginInit /\ [][PluginNext]_vars

---------------------------------------------------------------------------
(* Properties of a plugin-driven session.                                   *)

\* the analysis has run and its results stand
ReviewRan == plugin._enabled /\ session.phase \in {"summary", "done"}

\* the issues of the final results with a rule, about a test
FinalIssues(rule, test_name) ==
    SelectSeq(IssuePairs(plugin._results),
              LAMBDA pr : pr[2].rule = rule /\ pr[2].test_name = test_name)

\* the issues of the final results about a test
IssuesAbout(test_name) ==
    SelectSeq(IssuePairs(plugin._results), LAMBDA pr : pr[2].test_name = test_name)

IsRegistered(name) ==
    name \in Allowed(plugin._static_analyzers) \cup Allowed(plugin._dynamic_analyzers)

IsCollected(test_name) ==
    \E k \in 1..Len(plugin._test_infos) : plugin._test_infos[k].name = test_name

\* C11: for the test whose body is assert 1==1; assert 2==2; assert 3==3
\* the Structural Smells analyzer emits one Warning smells.assertion_roulette
\* issue and one smells.magic_number issue, citing 3, and the Assertion
\* analyzer emits three assertions.trivial issues
C11_ThreeUnmessagedAssertions ==
    (ReviewRan /\ IsCollected("test_roulette")) =>
        /\ IsRegistered("smells") =>
              /\ Len(FinalIssues("smells.assertion_roulette", "test_roulette")) = 1
              /\ FinalIssues("smells.assertion_roulette", "test_roulette")[1][2].severity
                    = "warning"
              /\ Len(FinalIssues("smells.magic_number", "test_roulette")) = 1
              /\ FinalIssues("smells.magic_number", "test_roulette")[1][2].message
                    = "Magic number 3 in assertion"
        /\ IsRegistered("assertions") =>
              Len(FinalIssues("assertions.trivial", "test_roulette")) = 3

\* the same test: a Warning smells.assertion_roulette issue, no
\* smells.magic_number issue and no assertions.trivial issue
C11_NoMagicNoTrivial ==
    (ReviewRan /\ IsCollected("test_roulette")) =>
        /\ IsRegistered("smells") =>
              /\ Len(FinalIssues("smells.assertion_roulette", "test_roulette")) = 1
              /\ FinalIssues("smells.assertion_roulette", "test_roulette")[1][2].severity
                    = "warning"
              /\ FinalIssues("smells.magic_number", "test_roulette") = <<>>
        /\ IsRegistered("assertions") =>
              FinalIssues("assertions.trivial", "test_roulette") = <<>>

\* a finished session that analysed the test with both analyzers
C11_Witness ==
    /\ ReviewRan
    /\ session.phase = "done"
    /\ IsCollected("test_roulette")
    /\ IsRegistered("smells")
    /\ IsRegistered("assertions")
    /\ FinalIssues("smells.assertion_roulette", "test_roulette") /= <<>>

\* C17: a test marked review_skip is not counted in total_tests, and no
\* issue of the final results, static or runtime, is about it
C17_ReviewSkipExcluded ==
    ReviewRan =>
        /\ Len(plugin._test_infos)
              = Cardinality({k \in 1..Len(session.items) : ~session.items[k].review_skip})
        /\ \A k \in 1..Len(session.items) :
              session.items[k].review_skip => IssuesAbout(session.items[k].name) = <<>>

\* the static half: no static analyzer's issue is about a review_skip test
ReviewSkipNotAnalysedStatically ==
    ReviewRan =>
        \A k \in 1..Len(session.items) :
            session.items[k].review_skip =>
                \A j \in 1..Len(IssuesAbout(session.items[k].name)) :
                    IssuesAbout(session.items[k].name)[j][1].analyzer_name = "performance"

\* C18: at the end of a review run the exit status is nonzero when strict
\* mode is on and the results hold an Error issue, and when the score is
\* below the minimum score
C18_ExitStatusGate ==
    (plugin._enabled /\ session.phase = "done") =>
        /\ (plugin.pytest_config.review_strict /\ has_errors(plugin))
              => session.exitstatus /= ExitCode_OK
        /\ session.score < Pts(plugin.pytest_config.review_min_score)
              => session.exitstatus /= ExitCode_OK

\* the results of a run in which the raising call alone is left out
ResultsWithoutRaisingCall ==
    LET pairs == AnalysisPairs(plugin._static_analyzers, plugin._test_infos)
        kept == SelectSeq(pairs, LAMBDA pr : <<pr[1], pr[2].name>> /= session.raises)
    IN  WithIssues([k \in 1..Len(kept) |-> Analyze(kept[k][1], kept[k][2])])
        \o (IF IsRegistered("performance")
            THEN WithIssues(Performance_get_results(perf)) ELSE <<>>)

\* C20: when one analyze call raises, the run still completes and the
\* final results are those of every other (analyzer, test) call
C20_FailureDropsOneContribution ==
    (plugin._enabled /\ session.phase \in {"summary", "done", "crashed"}) =>
        /\ session.phase /= "crashed"
        /\ plugin._results = ResultsWithoutRaisingCall

\* without a raising call the run completes with every contribution
CompletesWithoutFailure ==
    (plugin._enabled /\ session.phase \in {"summary", "done", "crashed"}
        /\ session.raises = NoRaise) =>
        /\ session.phase /= "crashed"
        /\ plugin._results = ResultsWithoutRaisingCall

\* C21: in a review run every on_test_start the plugin delivered has been
\* followed by the on_test_end of the same test before the next test's
\* on_test_start and before the session finishes, whatever the outcome of
\* the test: between two tests and at the end of the session the table of
\* pending start times is empty
C21_StartsAreEnded ==
    (plugin._enabled /\ session.phase \in {"protocol", "summary", "done", "crashed"})
        => plugin._test_start_times = <<>>

\* the call phase ends the start of its own test
CallPhaseEndsItsStart ==
    [][(plugin._enabled /\ session.phase = "call" /\ session'.phase = "teardown")
          => /\ DictHas(plugin._test_start_times, CurrentItem.nodeid)
             /\ ~DictHas(plugin'._test_start_times, CurrentItem.nodeid)]_vars

\* C22: one analyze call of the Structural Smells analyzer emits at most
\* one smells.assertion_roulette issue, at most one smells.duplicate_assert
\* issue and at most one smells.eager_test issue, also for a test body that
\* holds a nested function definition
C22_FinalizeOncePerTest ==
    (Analyzed /\ an_result.analyzer_name = "smells") =>
        /\ Len(IssuesWithRule("smells.assertion_roulette")) <= 1
        /\ Len(IssuesWithRule("smells.duplicate_assert")) <= 1
        /\ Len(IssuesWithRule("smells.eager_test")) <= 1

\* the same bound for the bodies that hold no nested function definition
FinalizeOnceWithoutNestedDef ==
    (Analyzed /\ an_result.analyzer_name = "smells"
        /\ \A k \in 1..Len(test_info.node.kids) : test_info.node.kids[k].type /= "FunctionDef") =>
        /\ Len(IssuesWithRule("smells.assertion_roulette")) <= 1
        /\ Len(IssuesWithRule("smells.duplicate_assert")) <= 1
        /\ Len(IssuesWithRule("smells.eager_test")) <= 1

\* an always-truthy literal that is not a bool: a nonzero number, a
\* non-empty string
IsTruthyLiteral(node) == node.type = "Constant" /\ node.tag /= "bool" /\ node.val /= 0

\* C24: an assert whose condition is an always-truthy literal other than
\* True yields exactly one assertions.trivial issue per occurrence, as an
\* assert of a literal True or a literal False does
C24_TruthyLiteralTrivial ==
    Analyzed =>
        \A k \in 1..Len(AssertsOf(test_info)) :
            LET a == AssertsOf(test_info)[k]
                t == AssertTest(a)
            IN  (IsConstantBool(t, 1) \/ IsConstantBool(t, 0) \/ IsTruthyLiteral(t))
                    => TrivialAt(a.lineno) = 1

\* the literal True and the literal False are reported once per occurrence
BoolLiteralTrivial ==
    Analyzed =>
        \A k \in 1..Len(AssertsOf(test_info)) :
            LET a == AssertsOf(test_info)[k]
                t == AssertTest(a)
            IN  (IsConstantBool(t, 1) \/ IsConstantBool(t, 0)) => TrivialAt(a.lineno) = 1

\* an assert of any other literal is not reported at all
OtherLiteralNotReported ==
    Analyzed =>
        \A k \in 1..Len(AssertsOf(test_info)) :
            LET a == AssertsOf(test_info)[k]
            IN  IsTruthyLiteral(AssertTest(a)) => TrivialAt(a.lineno) = 0

\* what a node adds to the cyclomatic complexity as C25 states it: an if
\* and an elif (both ast.If) add 1 each
ClaimedContribution(node) ==
    IF node.type \in {"If", "For", "While", "ExceptHandler", "IfExp"} THEN 1
    ELSE IF node.type = "BoolOp" THEN Len(node.kids) - 1
    ELSE IF node.type \in {"ListComp", "DictComp", "SetComp", "GeneratorExp"}
      THEN GeneratorComplexity(node)
    ELSE 0

ClaimedComplexity(t) ==
    1 + SumSeq([k \in 1..Len(walk(t.node)) |-> ClaimedContribution(walk(t.node)[k])])

\* the ast.If nodes that stand directly in the orelse of another ast.If
ChainedIfs(t) ==
    SumSeq([k \in 1..Len(walk(t.node)) |->
               IF walk(t.node)[k].type = "If"
               THEN Len(SelectSeq(IfOrelse(walk(t.node)[k]), LAMBDA child : child.type = "If"))
               ELSE 0])

\* C25: the cyclomatic complexity of a test is 1, plus 1 for each if and 1
\* for each elif, plus 1 for each for/while loop, plus 1 for each exception
\* handler, plus operands - 1 for each boolean-operator chain, plus 1 for
\* each ternary, plus 1 per comprehension generator and 1 per filter in it
C25_CyclomaticComplexity ==
    (Analyzed /\ an_result.analyzer_name = "complexity") =>
        an_result.metadata["cyclomatic_complexity"] = ClaimedComplexity(test_info)

\* what the analyzer computes: every chained if is counted once more
CyclomaticCountsChainedIfTwice ==
    (Analyzed /\ an_result.analyzer_name = "complexity") =>
        an_result.metadata["cyclomatic_complexity"]
            = ClaimedComplexity(test_info) + ChainedIfs(test_info)

---------------------------------------------------------------------------
(* The traversal of the ComplexityVisitor, one visit call at a time.  The   *)
(* call stack of NodeVisitor.visit holds, for every visit method that has   *)
(* not returned, its node and the next child its generic_visit will visit.  *)

\* the node types whose visit method calls _enter_scope and _exit_scope
ScopeNodes == {"If", "For", "While", "With", "Try", "ExceptHandler"}

\* the part of a visit method before its generic_visit call
CV_before(v, node) ==
    IF node.type \in CountedStatements THEN _count_statement(v)
    ELSE IF node.type = "If"
      THEN _enter_scope(AddComplexity(_count_statement(v),
               1 + Len(SelectSeq(IfOrelse(node), LAMBDA child : child.type = "If"))))
    ELSE IF node.type \in {"For", "While"}
      THEN _enter_scope(AddComplexity(_count_statement(v), 1))
    ELSE IF node.type = "ExceptHandler" THEN _enter_scope(AddComplexity(v, 1))
    ELSE IF node.type \in {"With", "Try"} THEN _enter_scope(_count_statement(v))
    ELSE IF node.type = "BoolOp" THEN AddComplexity(v, Len(node.kids) - 1)
    ELSE IF node.type = "IfExp" THEN AddComplexity(v, 1)
    ELSE IF node.type \in {"ListComp", "DictComp", "SetComp"}
      THEN AddComplexity(_count_statement(v), GeneratorComplexity(node))
    ELSE IF node.type = "GeneratorExp" THEN AddComplexity(v, GeneratorComplexity(node))
    ELSE v

\* the part of a visit method after its generic_visit call
CV_after(v, node) == IF node.type \in ScopeNodes THEN _exit_scope(v) ELSE v

\* a visit method that has just been called
VisitFrame(node) == [node |-> node, next |-> 1]

\* _analyze_ast after visitor.visit(test.node): the issues and the metadata
ComplexityReport(self, t, res, v) ==
    [res EXCEPT !.issues = @ \o TooManyStatements(self, t, v) \o DeepNesting(self, t, v)
                                 \o HighCyclomatic(self, t, v),
                    !.metadata = ComplexityMetadata(v)]

TraversalOptions == {EmptyMap, "max_depth" :> 1}

TraversalInit ==
    /\ ScoringIdle
    /\ RuntimeIdle
    /\ PluginIdle
    /\ ConfigIdle
    /\ test_info \in {TestItemInfo(b) : b \in Bodies(ComplexityStatements)}
    /\ an_options \in TraversalOptions
    /\ an_result = AnalyzerResult("complexity")
    /\ an_pc = "ready"
    /\ visitor = [self |-> ComplexityVisitor, stack |-> <<>>]
    /\ an_instance = None

traversalFrame == <<test_info, an_options, an_instance, scoringVars, runtimeVars, pluginVars, configVars>>

TopFrame == visitor.stack[Len(visitor.stack)]

\* visitor = ComplexityVisitor(); visitor.visit(test.node) is called
StartTraversal ==
    /\ an_pc = "ready"
    /\ visitor' = [self |-> CV_before(visitor.self, test_info.node),
                   stack |-> <<VisitFrame(test_info.node)>>]
    /\ an_pc' = "visiting"
    /\ UNCHANGED <<an_result, traversalFrame>>

\* generic_visit calls self.visit(child) for the next child
VisitChild ==
    /\ an_pc = "visiting"
    /\ TopFrame.next <= Len(TopFrame.node.kids)
    /\ LET child == TopFrame.node.kids[TopFrame.next]
       IN  visitor' = [self |-> CV_before(visitor.self, child),
                       stack |-> Append([visitor.stack EXCEPT ![Len(visitor.stack)].next = @ + 1],
                                        VisitFrame(child))]
    /\ UNCHANGED <<an_pc, an_result, traversalFrame>>

\* generic_visit has visited every child and the visit method returns; when
\* it is the visit of the test function, _analyze_ast reports
ReturnFromVisit ==
    /\ an_pc = "visiting"
    /\ TopFrame.next > Len(TopFrame.node.kids)
    /\ LET v == CV_after(visitor.self, TopFrame.node)
           stack == SubSeq(visitor.stack, 1, Len(visitor.stack) - 1)
       IN  /\ visitor' = [self |-> v, stack |-> stack]
           /\ IF stack = <<>>
              THEN /\ an_result' = ComplexityReport(ComplexityAnalyzer(an_options),
                                                    test_info, an_result, v)
                   /\ an_pc' = "done"
              ELSE UNCHANGED <<an_result, an_pc>>
    /\ UNCHANGED traversalFrame

TraversalNext ==
    \/ StartTraversal
    \/ VisitChild
    \/ ReturnFromVisit

SpecComplexityTraversal == TraversalInit /\ [][TraversalNext]_vars

---------------------------------------------------------------------------
(* Properties of the traversal.                                             *)

\* the traversal step by step ends with the result analyze() returns
TraversalMatchesAnalyze ==
    an_pc = "done" => an_result = ComplexityAnalyzer_analyze(an_options, test_info)

\* the scope nodes whose visit method has not returned
OpenScopes(stack) ==
    Cardinality({k \in 1..Len(stack) : stack[k].node.type \in ScopeNodes})

RECURSIVE NestingDepth(_), DeepestOf(_)
\* the largest number of scope nodes on a path from the node downwards
NestingDepth(node) ==
    (IF node.type \in ScopeNodes THEN 1 ELSE 0) + DeepestOf(node.kids)
DeepestOf(nodes) ==
    IF nodes = <<>> THEN 0 ELSE Max(NestingDepth(Head(nodes)), DeepestOf(Tail(nodes)))

\* C26: after every step of the traversal the current depth is the number
\* of if/for/while/with/try/except-handler nodes open on the path from the
\* test function to the visited node and is not negative; max_depth is the
\* largest value the current depth has taken so far; and when the traversal
\* ends the current depth is 0 and the reported max_depth is the deepest
\* nesting of the body (0 for a body without such a construct)
C26_DepthBookkeeping ==
    [][LET v == visitor'.self
       IN  /\ v._current_depth = OpenScopes(visitor'.stack)
           /\ v._current_depth >= 0
           /\ v.max_depth = Max(visitor.self.max_depth, v._current_depth)
           /\ an_pc' = "done" =>
                 /\ v._current_depth = 0
                 /\ v.max_depth = NestingDepth(test_info.node)
                 /\ an_result'.metadata["max_depth"] = v.max_depth
      ]_vars

\* the traversal of "with f(x): with f(y): try: pass / except: pass" has
\* ended: depth 0 again, max_depth 4
C26_Witness ==
    /\ an_pc = "done"
    /\ visitor.stack = <<>>
    /\ Len(test_info.node.kids) = 1
    /\ test_info.node.kids[1].type = "With"
    /\ visitor.self._current_depth = 0
    /\ an_result.metadata["max_depth"] = 4

\* in the middle of that traversal: four scopes open at the handler's pass
FourScopesOpen ==
    /\ an_pc = "visiting"
    /\ TopFrame.node.type = "Pass"
    /\ visitor.self._current_depth = 4
    /\ OpenScopes(visitor.stack) = 4

---------------------------------------------------------------------------
(* One ScoringEngine instance called again and again.                       *)

\* ScoringEngine.__init__
ScoringEngine == [_results |-> <<>>, _total_tests |-> 0]

\* a calculate_score that groups the results the engine held on entry
Engine_calculate_score_Stale(self, rs, total_tests) ==
    [engine |-> [self EXCEPT !._results = rs, !._total_tests = total_tests],
     returned |-> calculate_score(self._results, rs, total_tests)]

\* ScoringEngine.calculate_score on the engine self: the engine afterwards
\* and the breakdown returned
Engine_calculate_score(self, rs, total_tests) ==
    LET after == [self EXCEPT !._results = rs, !._total_tests = total_tests]
    IN  [engine |-> after,
         returned |-> calculate_score(after._results, rs, total_tests)]

\* ScoringEngine.get_simple_score
get_simple_score(self, rs, total_tests) ==
    LET call == Engine_calculate_score(self, rs, total_tests)
    IN  [engine |-> call.engine, returned |-> call.returned.total_score]

\* the result of one analyzer: no issue or one
OneAnalyzerResults(name, rules) ==
    {AnalyzerResult(name)}
        \cup {add_issue(AnalyzerResult(name), IssueOf(rule, sev)) :
                 rule \in rules, sev \in {"error"}}

\* the lists the engine is called with: nothing, the result of one
\* analyzer, the results of two
ResultLists ==
    LET first == OneAnalyzerResults("assertions", {"assertions.missing"})
        second == OneAnalyzerResults("naming", {"naming.too_short"})
    IN  {<<>>} \cup {<<r>> : r \in first \cup second}
               \cup {<<r1, r2>> : r1 \in first, r2 \in second}

\* the call made last: the method, the total_tests argument, the score
\* returned
EngineCall(op, total_tests, returned) ==
    [op |-> op, total_tests |-> total_tests, returned |-> returned]

ReuseInit ==
    /\ AnalyzerIdle
    /\ PluginIdle
    /\ ConfigIdle
    /\ perf = None
    /\ iso = None
    /\ modules = EmptyMap
    /\ results = <<>>
    /\ engine = ScoringEngine
    /\ breakdown = ScoreBreakdown(0)
    /\ score_pc = "scored"
    /\ last_call = EngineCall("__init__", 0, 0)

reuseFrame == <<score_pc, analyzerVars, perf, iso, modules, pluginVars, configVars>>

\* breakdown = engine.calculate_score(rs, total_tests) on the engine as it is
CalculateScoreAgain(rs, total_tests) ==
    LET call == Engine_calculate_score(engine, rs, total_tests)
    IN  /\ results' = rs
        /\ engine' = call.engine
        /\ breakdown' = call.returned
        /\ last_call' = EngineCall("calculate_score", total_tests,
                                   call.returned.total_score)
        /\ UNCHANGED reuseFrame

\* engine.get_simple_score(rs, total_tests) on the engine as it is
GetSimpleScore(rs, total_tests) ==
    LET call == get_simple_score(engine, rs, total_tests)
    IN  /\ results' = rs
        /\ engine' = call.engine
        /\ last_call' = EngineCall("get_simple_score", total_tests,
                                   call.returned)
        /\ UNCHANGED <<breakdown, reuseFrame>>

ReuseNext ==
    \/ \E rs \in ResultLists, total_tests \in 0..MaxTests : CalculateScoreAgain(rs, total_tests)
    \/ \E rs \in ResultLists, total_tests \in 0..MaxTests : GetSimpleScore(rs, total_tests)

SpecScoringReuse == ReuseInit /\ [][ReuseNext]_vars

---------------------------------------------------------------------------
(* Properties of a reused engine.                                           *)

\* C27: whatever calls the engine has served before, calculate_score
\* returns the breakdown a fresh engine returns for the same results and
\* total_tests, and get_simple_score returns that breakdown's total_score
C27_ReusedEngineIsPure ==
    [][LET fresh == Engine_calculate_score(ScoringEngine, results',
                                           last_call'.total_tests).returned
       IN  /\ last_call'.op = "calculate_score" => breakdown' = fresh
           /\ last_call'.op = "get_simple_score" => last_call'.returned = fresh.total_score
           /\ engine'._results = results'
      ]_vars

\* an engine whose calculate_score found an issue serves get_simple_score
\* for no results and one test, and returns 100
C27_Witness ==
    /\ last_call.op = "get_simple_score"
    /\ breakdown.total_issues = 1
    /\ breakdown.total_score < Pts(100)
    /\ results = <<>>
    /\ engine._results = <<>>
    /\ last_call.total_tests = 1
    /\ last_call.returned = Pts(100)

---------------------------------------------------------------------------
(* PerformanceAnalyzer.get_statistics and the observer's consistency.       *)

MinSeq(s) == CHOOSE m \in {s[k] : k \in 1..Len(s)} : \A k \in 1..Len(s) : m <= s[k]
MaxSeq(s) == CHOOSE m \in {s[k] : k \in 1..Len(s)} : \A k \in 1..Len(s) : m >= s[k]

\* PerformanceAnalyzer.get_statistics; avg_ms is the quotient of the pair
get_statistics(self) ==
    IF self._test_durations = <<>> THEN EmptyMap
    ELSE LET durations == DictValues(self._test_durations)
         IN  ("total_ms" :> SumSeq(durations))
             @@ ("avg_ms" :> <<SumSeq(durations), Len(durations)>>)
             @@ ("min_ms" :> MinSeq(durations))
             @@ ("max_ms" :> MaxSeq(durations))
             @@ ("slow_count" :>
                    Len(SelectSeq(durations, LAMBDA d : d >= self._slow_threshold_ms)))
             @@ ("very_slow_count" :>
                    Len(SelectSeq(durations, LAMBDA d : d >= self._very_slow_threshold_ms)))

VerySlowResults(self) ==
    SelectSeq(Performance_get_results(self),
              LAMBDA res : IssuesOfRule(res, "performance.very_slow") /= <<>>)

\* C29: with the slow threshold at or below the very-slow threshold, after
\* any sequence of on_test_start and on_test_end events, get_results holds a
\* result for a test name exactly when the duration recorded for that name
\* is at or above the slow threshold, the number of results is slow_count
\* and the number of results with a performance.very_slow issue is
\* very_slow_count
C29_ResultsMatchStatistics ==
    (perf._slow_threshold_ms <= perf._very_slow_threshold_ms /\ perf._test_durations /= <<>>) =>
        /\ \A n \in TestNames :
              DictHas(perf._test_results, n)
                  <=> /\ DictHas(perf._test_durations, n)
                      /\ DictGet(perf._test_durations, n) >= perf._slow_threshold_ms
        /\ Len(Performance_get_results(perf)) = get_statistics(perf)["slow_count"]
        /\ Len(VerySlowResults(perf)) = get_statistics(perf)["very_slow_count"]

\* the first on_test_end of a name leaves the name consistent
FirstEndConsistent ==
    [][(IsTestEnd /\ ~DictHas(perf._test_durations, last_call'.test_name)
          /\ perf._slow_threshold_ms <= perf._very_slow_threshold_ms) =>
        LET n == last_call'.test_name
        IN  DictHas(perf'._test_results, n)
               <=> DictGet(perf'._test_durations, n) >= perf._slow_threshold_ms
      ]_vars

---------------------------------------------------------------------------
(* ReviewConfig.from_dict called on a dictionary the caller keeps.          *)

MaxBuilds == 2      \* from_dict calls on the one dictionary

\* analyzer_data.pop("enabled", True) for every analyzer entry that is a
\* dict: what the loop of from_dict leaves in analyzers_data
AfterPops(analyzers_data) ==
    [k \in 1..Len(analyzers_data) |->
        LET name == analyzers_data[k][1]
            analyzer_data == analyzers_data[k][2]
        IN  IF analyzer_data.kind = "dict"
            THEN <<name, Table(DictDel(analyzer_data.v, "enabled"))>>
            ELSE <<name, analyzer_data>>]

\* the dictionary data after ReviewConfig.from_dict(data): the loop has run
\* unless data.get or analyzers_data.items() raised before it
DataAfter_from_dict(data) ==
    IF data.kind = "dict" /\ DictHas(data.v, "analyzers")
          /\ DictGet(data.v, "analyzers").kind = "dict"
    THEN Table(DictSet(data.v, "analyzers", Table(AfterPops(DictGet(data.v, "analyzers").v))))
    ELSE data

DictInit ==
    /\ ScoringIdle
    /\ AnalyzerIdle
    /\ RuntimeIdle
    /\ PluginIdle
    /\ config_file = None
    /\ config_data \in {Table(t) : t \in ReviewTables}
    /\ review_config = <<>>

\* config = ReviewConfig.from_dict(data): review_config lists what the
\* calls so far returned or raised
BuildFromDict ==
    /\ Len(review_config) < MaxBuilds
    /\ review_config' = Append(review_config, from_dict(config_data))
    /\ config_data' = DataAfter_from_dict(config_data)
    /\ UNCHANGED <<config_file, scoringVars, analyzerVars, runtimeVars, pluginVars>>

DictNext == BuildFromDict

SpecConfigDict == DictInit /\ [][DictNext]_vars

---------------------------------------------------------------------------
(* Properties of from_dict on a kept dictionary.                            *)

\* C30: from_dict leaves the dictionary passed to it unchanged, and a second
\* build from the same dictionary gives a configuration equal to the first
C30_FromDictLeavesInput ==
    [][/\ config_data' = config_data
       /\ (review_config /= <<>> /\ Len(review_config') > Len(review_config)) =>
             /\ Last(review_config').status = Last(review_config).status
             /\ Last(review_config') = Last(review_config)
      ]_vars

\* the enabled flag of an analyzer in a configuration from_dict returned
EnabledIn(outcome, name) == DictGet(outcome.value.analyzers, name).enabled

\* what does hold: the second build raises when the first did, and its
\* configuration differs from the first at most in the enabled flags of
\* the analyzers
SecondBuildDiffersInEnabledOnly ==
    Len(review_config) = 2 =>
        /\ review_config[2].status = review_config[1].status
        /\ review_config[1].status = "returned" =>
              LET first == review_config[1].value
                  second == review_config[2].value
              IN  /\ [second EXCEPT !.analyzers = <<>>] = [first EXCEPT !.analyzers = <<>>]
                  /\ Len(second.analyzers) = Len(first.analyzers)
                  /\ \A k \in 1..Len(first.analyzers) :
                        /\ second.analyzers[k][1] = first.analyzers[k][1]
                        /\ second.analyzers[k][2].options = first.analyzers[k][2].options

\* the disabled analyzer is enabled in the second build
DisabledAnalyzerEnabledAgain ==
    /\ Len(review_config) = 2
    /\ review_config[1].status = "returned"
    /\ DictHas(review_config[1].value.analyzers, "assertions")
    /\ EnabledIn(review_config[1], "assertions") = Bool(FALSE)
    /\ EnabledIn(review_config[2], "assertions") = Bool(TRUE)

---------------------------------------------------------------------------
(* The constructors of the analyzers: thresholds read from the options.     *)

MaxOptionValue == 2     \* configured values range over 0..MaxOptionValue

\* int(s) for the decimal string of a small number
ParseInt(s) == CHOOSE n \in 0..(MaxOptionValue + 10) : ToString(n) = s

\* NamingAnalyzer.__init__: int(str(min_len_opt)); the option is never
\* None, a TOML document holds no null
NamingAnalyzer(opts) ==
    [_min_length |-> ParseInt(ToString(get_option(opts, "min_length", 10))),
     _require_docstring |-> get_option(opts, "require_docstring", FALSE)]

\* AssertionsAnalyzer.__init__
AssertionsAnalyzer(opts) == [_min_assertions |-> AssertionsAnalyzer_min_assertions(opts)]

\* AnalyzerClass(config) for the analyzer of a name
Construct(name, opts) ==
    [name |-> name,
     self |-> IF name = "assertions" THEN AssertionsAnalyzer(opts)
              ELSE IF name = "complexity" THEN ComplexityAnalyzer(opts)
              ELSE IF name = "performance" THEN PerformanceAnalyzer(opts)
              ELSE NamingAnalyzer(opts)]

\* the numeric options: analyzer, key, the field that holds the threshold,
\* the documented default
NumericOptions ==
    { <<"assertions", "min_assertions", "_min_assertions", 1>>,
      <<"complexity", "max_statements", "_max_statements", 20>>,
      <<"complexity", "max_depth", "_max_depth", 3>>,
      <<"complexity", "max_complexity", "_max_complexity", 5>>,
      <<"performance", "slow_threshold_ms", "_slow_threshold_ms", 500>>,
      <<"performance", "very_slow_threshold_ms", "_very_slow_threshold_ms", 2000>>,
      <<"naming", "min_length", "_min_length", 10>> }

ThresholdAnalyzers == {o[1] : o \in NumericOptions}
OptionKeys(name) == {o[2] : o \in {p \in NumericOptions : p[1] = name}}

\* the options maps of an analyzer: any of its keys present, with a value
OptionMaps(name) ==
    UNION {[keys -> 0..MaxOptionValue] : keys \in SUBSET OptionKeys(name)}

ThresholdsInit ==
    /\ ScoringIdle
    /\ RuntimeIdle
    /\ PluginIdle
    /\ ConfigIdle
    /\ test_info = <<>>
    /\ an_result = AnalyzerResult("")
    /\ visitor = None
    /\ an_instance \in {[name |-> name, self |-> None] : name \in ThresholdAnalyzers}
    /\ an_options \in OptionMaps(an_instance.name)
    /\ an_pc = "ready"

\* an_instance = AnalyzerClass(config), config holding the options map
ConstructAnalyzer ==
    /\ an_pc = "ready"
    /\ an_instance' = Construct(an_instance.name, an_options)
    /\ an_pc' = "done"
    /\ UNCHANGED <<test_info, an_options, an_result, visitor, scoringVars, runtimeVars,
                   pluginVars, configVars>>

ThresholdsNext == ConstructAnalyzer

SpecThresholds == ThresholdsInit /\ [][ThresholdsNext]_vars

---------------------------------------------------------------------------
(* Properties of the constructors.                                          *)

\* C28: for every numeric option and every configured non-negative value,
\* the constructed analyzer's threshold is the configured value when the
\* key is in its options map and the documented default when it is absent
C28_ThresholdsFromOptions ==
    an_pc = "done" =>
        \A o \in NumericOptions :
            an_instance.name = o[1] =>
                an_instance.self[o[3]] = (IF o[2] \in DOMAIN an_options
                                       THEN an_options[o[2]] ELSE o[4])

\* what holds: a configured value other than 0 is the threshold, and an
\* absent key gives the default
NonZeroThresholdsFromOptions ==
    an_pc = "done" =>
        \A o \in NumericOptions :
            (an_instance.name = o[1] /\ (o[2] \notin DOMAIN an_options \/ an_options[o[2]] /= 0)) =>
                an_instance.self[o[3]] = (IF o[2] \in DOMAIN an_options
                                       THEN an_options[o[2]] ELSE o[4])

\* a configured 0 gives the default, except for naming.min_length
ZeroGivesDefault ==
    an_pc = "done" =>
        \A o \in NumericOptions :
            (an_instance.name = o[1] /\ o[2] \in DOMAIN an_options /\ an_options[o[2]] = 0) =>
                an_instance.self[o[3]] = (IF o[1] = "naming" THEN 0 ELSE o[4])

---------------------------------------------------------------------------
(* analyzers/patterns.py: PatternVisitor and PatternsAnalyzer.  The test    *)
(* bodies of this model hold no import statement, so visit_Import and       *)
(* visit_ImportFrom have nothing to visit.                                  *)

\* the literal None; a str literal that is an absolute path under /tmp
NoneConstant == Constant("NoneType", 0)
PathConstant(length) == Constant("path", length)
\* except <type>: val 1, the type before the body (val 0 is a bare except)
ExceptHandlerOf(type, body) == Node("ExceptHandler", "", 1, <<type>> \o body)
HandlerBody(node) == SubSeq(node.kids, node.val + 1, Len(node.kids))

\* PatternVisitor.__init__: issues holds (line, rule, message, severity)
PatternVisitor == [issues |-> <<>>]

PV_append(v, node, rule, message, severity) ==
    [v EXCEPT !.issues = Append(@, <<node.lineno, rule, message, severity>>)]

\* isinstance(operand.value, (int, str, float)): a bool is an int
IsIntStrFloat(operand) == operand.tag \in {"int", "float", "str", "path", "bool"}

\* operand.value in (True, False, None), by ==: 1 and 1.0 equal True, 0 and
\* 0.0 equal False
InTrueFalseNone(operand) ==
    \/ operand.tag \in {"bool", "NoneType"}
    \/ operand.tag \in {"int", "float"} /\ operand.val \in {0, 1}

\* the test visit_Compare makes on an operand
IsFlaggedLiteral(operand) ==
    /\ operand.type = "Constant"
    /\ IsIntStrFloat(operand)
    /\ ~InTrueFalseNone(operand)

\* visit_Compare before generic_visit: for every is / is not operator, one
\* issue when its left or right operand is a flagged literal
PV_visit_Compare(v, node) ==
    LET flagged == {i \in 1..node.val :
                       /\ node.tag \in {"Is", "IsNot"}
                       /\ \/ IsFlaggedLiteral(node.kids[i])
                          \/ IsFlaggedLiteral(node.kids[i + 1])}
    IN  [v EXCEPT !.issues = @ \o
            [k \in 1..Cardinality(flagged) |->
                <<node.lineno, "patterns.is_literal",
                  "Using 'is' with literal value - use '==' instead", "warning">>]]

\* visit_ExceptHandler before generic_visit
PV_visit_ExceptHandler(v, node) ==
    LET bare == IF node.val = 0
                THEN PV_append(v, node, "patterns.bare_except",
                         "Bare 'except:' clause catches all exceptions including KeyboardInterrupt",
                         "warning")
                ELSE v
    IN  IF /\ node.val = 1
           /\ node.kids[1].type = "Name" /\ node.kids[1].tag = "Exception"
           /\ Len(HandlerBody(node)) = 1 /\ HandlerBody(node)[1].type = "Pass"
        THEN PV_append(bare, node, "patterns.swallowed_exception",
                       "Exception is caught and silently ignored", "warning")
        ELSE bare

IsAttributeOf(func, name, attr) ==
    /\ func.type = "Attribute" /\ func.tag = attr
    /\ func.kids[1].type = "Name" /\ func.kids[1].tag = name

\* visit_Call before generic_visit
PV_visit_Call(v, node) ==
    LET func == node.kids[1]
        v1 == IF IsAttributeOf(func, "time", "sleep")
              THEN PV_append(v, node, "patterns.sleep_in_test",
                       "time.sleep() in test makes it slow and potentially flaky", "warning")
              ELSE v
        v2 == IF func.type = "Name" /\ func.tag = "print"
              THEN PV_append(v1, node, "patterns.print_statement",
                       "print() statement in test - use logging or assertions instead", "info")
              ELSE v1
        v3 == IF func.type = "Name" /\ func.tag = "open"
              THEN PV_append(v2, node, "patterns.open_without_context",
                       "open() should be used with a context manager (with statement)", "info")
              ELSE v2
    IN  IF IsAttributeOf(func, "os", "system")
        THEN PV_append(v3, node, "patterns.os_system",
                       "os.system() is deprecated, use subprocess module", "info")
        ELSE v3

\* the text of the model's path literal of a length: /tmp/ppp...
RECURSIVE PathText(_)
PathText(length) == IF length <= 5 THEN "/tmp/" ELSE PathText(length - 1) \o "p"

\* visit_Constant before generic_visit: the model's path literals are
\* absolute paths under /tmp, longer than 5 characters; the message is the
\* f-string's, whose conditional is part of the text
PV_visit_Constant(v, node) ==
    IF node.tag = "path"
    THEN PV_append(v, node, "patterns.hardcoded_path",
                   "Hardcoded absolute path: '" \o PathText(node.val)
                       \o "...' if len(value) > 50 else '" \o PathText(node.val) \o "'",
                   "warning")
    ELSE v

RECURSIVE PV_visit(_, _), PV_visit_all(_, _)

PV_visit(v, node) ==
    PV_visit_all(IF node.type = "Compare" THEN PV_visit_Compare(v, node)
                 ELSE IF node.type = "ExceptHandler" THEN PV_visit_ExceptHandler(v, node)
                 ELSE IF node.type = "Call" THEN PV_visit_Call(v, node)
                 ELSE IF node.type = "Constant" THEN PV_visit_Constant(v, node)
                 ELSE v,
                 node.kids)

\* generic_visit: the children in order; w is the visitor after the first
PV_visit_all(v, nodes) ==
    IF nodes = <<>> THEN v
    ELSE CHOOSE r \in {PV_visit_all(w, Tail(nodes)) : w \in {PV_visit(v, Head(nodes))}} : TRUE

\* PatternsAnalyzer._analyze_ast
Patterns_analyze_ast(t, res) ==
    LET v == PV_visit(PatternVisitor, t.node)
    IN  [res EXCEPT
            !.issues = @ \o [k \in 1..Len(v.issues) |->
                                Issue(v.issues[k][2], v.issues[k][3], v.issues[k][4],
                                      v.issues[k][1], t.name)],
            !.metadata = "pattern_issues" :> Len(v.issues)]

\* StaticAnalyzer.analyze for the PatternsAnalyzer
PatternsAnalyzer_analyze(t) == Patterns_analyze_ast(t, AnalyzerResult("patterns"))

---------------------------------------------------------------------------
(* A run of the Anti-Pattern analyzer over one test function.               *)

\* the literals compared with is / is not
IdentityLiterals ==
    { Num(0), Num(1), Num(2), Num(100), Constant("float", 1), Constant("float", 3),
      Constant("str", 4), Constant("str", 0), True, False, NoneConstant }

PatternStatements ==
    { AssertStmt(Compare(x, "Is", <<c>>), <<>>) : c \in IdentityLiterals }
    \cup { AssertStmt(Compare(x, "IsNot", <<c>>), <<>>) : c \in {Num(1), Num(100), False} }
    \cup { AssertStmt(Compare(Num(100), "Is", <<x>>), <<>>),
           AssertStmt(Compare(x, "Is", <<y>>), <<>>),
           AssertStmt(Compare(x, "Eq", <<Num(100)>>), <<>>),
           AssertStmt(Compare(x, "Is", <<Num(5), Num(6)>>), <<>>),
           ExprStmt(Call(Attribute(Name("time"), "sleep"), <<Num(1)>>)),
           ExprStmt(Call(Name("print"), <<x>>)),
           ExprStmt(Call(Name("open"), <<PathConstant(13)>>)),
           ExprStmt(Call(Attribute(Name("os"), "system"), <<Constant("str", 2)>>)),
           Try(<<PassStmt>>, <<ExceptHandler(<<PassStmt>>)>>),
           Try(<<PassStmt>>, <<ExceptHandlerOf(Name("Exception"), <<PassStmt>>)>>) }

PatternsInit ==
    /\ ScoringIdle
    /\ RuntimeIdle
    /\ PluginIdle
    /\ ConfigIdle
    /\ test_info \in {TestItemInfo(b) : b \in Bodies(PatternStatements)}
    /\ an_options = EmptyMap
    /\ an_result = AnalyzerResult("")
    /\ an_pc = "ready"
    /\ visitor = None
    /\ an_instance = None

\* result = PatternsAnalyzer(config).analyze(test)
AnalyzePatterns ==
    /\ an_pc = "ready"
    /\ an_result' = PatternsAnalyzer_analyze(test_info)
    /\ an_pc' = "done"
    /\ UNCHANGED <<test_info, an_options, visitor, an_instance, scoringVars, runtimeVars,
                   pluginVars, configVars>>

PatternsNext == AnalyzePatterns

SpecPatterns == PatternsInit /\ [][PatternsNext]_vars

---------------------------------------------------------------------------
(* Properties of the Anti-Pattern analyzer.                                 *)

\* a numeric or string literal; True, False and None are not
IsNumericOrStringLiteral(node) ==
    node.type = "Constant" /\ node.tag \in {"int", "float", "str", "path"}

\* the identity comparisons of the test: every operator of an is / is not
\* comparison, as <<line, left operand, right operand>>
IdentityComparisons(t) ==
    LET compares == SelectSeq(walk(t.node),
                              LAMBDA n : n.type = "Compare" /\ n.tag \in {"Is", "IsNot"})
    IN  UNION {{<<compares[k].lineno, compares[k].kids[i], compares[k].kids[i + 1]>> :
                   i \in 1..compares[k].val} : k \in 1..Len(compares)}

IsLiteralIssuesAt(line) ==
    Len(SelectSeq(IssuesWithRule("patterns.is_literal"), LAMBDA i : i.line = line))

\* C23: the Anti-Pattern analyzer emits a patterns.is_literal Warning for
\* every identity comparison in which an operand is a numeric or string
\* literal, whatever the literal's value (0 and 1 included), and none for
\* the comparisons whose operands hold no such literal (True, False, None)
C23_IsLiteralEveryValue ==
    (Analyzed /\ an_result.analyzer_name = "patterns") =>
        /\ \A line \in {c[1] : c \in IdentityComparisons(test_info)} :
              IsLiteralIssuesAt(line)
                  = Cardinality({c \in IdentityComparisons(test_info) :
                                    /\ c[1] = line
                                    /\ \/ IsNumericOrStringLiteral(c[2])
                                       \/ IsNumericOrStringLiteral(c[3])})
        /\ \A k \in 1..Len(IssuesWithRule("patterns.is_literal")) :
              IssuesWithRule("patterns.is_literal")[k].severity = "warning"

\* what holds: the same with the numbers 0 and 1 (0.0 and 1.0 too) taken
\* out of the literals that count
IsZeroOrOne(node) == node.tag \in {"int", "float"} /\ node.val \in {0, 1}

IsLiteralExceptZeroAndOne ==
    (Analyzed /\ an_result.analyzer_name = "patterns") =>
        \A line \in {c[1] : c \in IdentityComparisons(test_info)} :
            IsLiteralIssuesAt(line)
                = Cardinality({c \in IdentityComparisons(test_info) :
                                  /\ c[1] = line
                                  /\ \/ IsNumericOrStringLiteral(c[2]) /\ ~IsZeroOrOne(c[2])
                                     \/ IsNumericOrStringLiteral(c[3]) /\ ~IsZeroOrOne(c[3])})

=============================================================================
